---- MODULE Spec2Model ----
(***************************************************************************)
(* A model of the AQL generator of cruddl                                  *)
(* (src/database/arangodb/aql-generator.ts): the compilation context       *)
(* (QueryContext), the node processors and getAQLQuery.                    *)
(*                                                                         *)
(* Strings whose characters matter (field names, literal string values)    *)
(* are sequences of one-character strings.  A fragment (AQLFragment) is a  *)
(* sequence of tokens; a token is compiler text ("code"), a bound value    *)
(* ("value"), an unquoted identifier ("ident"), a collection ("coll") or   *)
(* a fragment variable ("var").  Objects of the program that are shared    *)
(* by reference (the pre-execution list and the two collection sets of a   *)
(* QueryContext) live in a heap record H that every operator threads.      *)
(***************************************************************************)
EXTENDS Integers, Sequences, FiniteSets, TLC

(***************************************************************************)
(* Bounds of the checked inputs.                                           *)
(***************************************************************************)
MaxSkip == 2
MaxCount == 2
MaxEntries == 2
MaxVariables == 2
MaxMaps == 3

(***************************************************************************)
(* Values                                                                  *)
(***************************************************************************)
\* a JSON value: a string s, a number n or a list l of strings
NoValue == [ty |-> "none", s |-> <<>>, n |-> 0, l |-> <<>>]
StringValue(s) == [ty |-> "string", s |-> s, n |-> 0, l |-> <<>>]
NumberValue(n) == [ty |-> "number", s |-> <<>>, n |-> n, l |-> <<>>]
StringListValue(l) == [ty |-> "list", s |-> <<>>, n |-> 0, l |-> l]
\* Number.MAX_SAFE_INTEGER (2^53 - 1) lies outside the integers of the checker
MAX_SAFE_INTEGER == [ty |-> "MAX_SAFE_INTEGER", s |-> <<>>, n |-> 0, l |-> <<>>]

LowerCaseLetters ==
    {"a", "b", "c", "d", "e", "f", "g", "h", "i", "j", "k", "l", "m",
     "n", "o", "p", "q", "r", "s", "t", "u", "v", "w", "x", "y", "z"}
UpperCaseLetters == {"A", "B", "C"}
Digits == {"0", "1", "2"}

toLowerCase(str) ==
    [i \in 1..Len(str) |->
        CASE str[i] = "A" -> "a" [] str[i] = "B" -> "b" [] str[i] = "C" -> "c"
          [] OTHER -> str[i]]

toUpperCase(str) ==
    [i \in 1..Len(str) |->
        CASE str[i] = "a" -> "A" [] str[i] = "b" -> "B" [] str[i] = "c" -> "C"
          [] OTHER -> str[i]]

isStringCaseInsensitive(str) == toLowerCase(str) = toUpperCase(str)

(***************************************************************************)
(* Fragment builder (aql.ts)                                               *)
(***************************************************************************)
aqlCode(c) == << [k |-> "code", c |-> c, v |-> NoValue, ind |-> 0] >>

aqlValue(v) == << [k |-> "value", c |-> "", v |-> v, ind |-> 0] >>

aqlIdentifierToken(name) == << [k |-> "ident", c |-> "", v |-> StringValue(name), ind |-> 0] >>

aqlCollection(name) == << [k |-> "coll", c |-> "", v |-> StringValue(name), ind |-> 0] >>

\* aql.string(s): a quoted string in the query text
aqlString(str) == << [k |-> "string", c |-> "", v |-> StringValue(str), ind |-> 0] >>

\* aql.integer(n): a number in the query text
aqlInteger(n) == << [k |-> "integer", c |-> "", v |-> NumberValue(n), ind |-> 0] >>

\* a fragment variable (AQLVariable / AQLQueryResultVariable) used in a template
aqlVariableToken(aqlVar) ==
    << [k |-> IF aqlVar.isResult THEN "resultVar" ELSE "var",
        c |-> aqlVar.label, v |-> NumberValue(aqlVar.id), ind |-> 0] >>

isSafeIdentifier(str) ==
    /\ Len(str) > 0
    /\ str[1] \in LowerCaseLetters \cup UpperCaseLetters \cup {"_"}
    /\ \A i \in 1..Len(str) :
          str[i] \in LowerCaseLetters \cup UpperCaseLetters \cup Digits \cup {"_"}

Range(seq) == { seq[i] : i \in DOMAIN seq }

RECURSIVE aqlJoin(_, _)
aqlJoin(frags, sep) ==
    IF Len(frags) = 0 THEN <<>>
    ELSE IF Len(frags) = 1 THEN frags[1]
    ELSE frags[1] \o sep \o aqlJoin(Tail(frags), sep)

aqlLines(frags) == aqlJoin(frags, aqlCode("\n"))

aqlIndent(frag) == [i \in 1..Len(frag) |-> [frag[i] EXCEPT !.ind = @ + 1]]

RECURSIVE aqlConcat(_)
aqlConcat(frags) == IF Len(frags) = 0 THEN <<>> ELSE frags[1] \o aqlConcat(Tail(frags))

parenthesizeList(content) ==
    aqlLines(<< aqlCode("("), aqlIndent(aqlLines(content)), aqlCode(")") >>)

parenthesizeObject(content) == aqlCode("FIRST") \o parenthesizeList(content)

(***************************************************************************)
(* Model metadata (arango-basics.ts)                                       *)
(***************************************************************************)
RootEntityTypes == {"Delivery", "HandlingUnit"}
Relations == {"Delivery_handlingUnits"}

getCollectionNameForRootEntity(type) ==
    CASE type = "Delivery" -> << "d", "e", "l", "i", "v", "e", "r", "i", "e", "s" >>
      [] type = "HandlingUnit" -> << "u", "n", "i", "t", "s" >>

getCollectionNameForRelation(relation) ==
    CASE relation = "Delivery_handlingUnits" ->
            << "d", "e", "l", "i", "v", "e", "r", "i", "e", "s", "_", "u", "n", "i", "t", "s" >>

relationFromType(relation) == CASE relation = "Delivery_handlingUnits" -> "Delivery"
relationToType(relation) == CASE relation = "Delivery_handlingUnits" -> "HandlingUnit"

FLEX_SEARCH_VIEW_PREFIX == << "f", "l", "e", "x", "_", "v", "i", "e", "w", "_" >>
getFlexSearchViewNameForRootEntity(rootEntity) ==
    FLEX_SEARCH_VIEW_PREFIX \o getCollectionNameForRootEntity(rootEntity)

(***************************************************************************)
(* The heap: objects shared by reference                                   *)
(***************************************************************************)
\* vm, pre, rd, wr: the Maps, arrays and Sets allocated so far (a QueryContext
\* holds their indices); nextVar: the next fresh fragment variable; aqlConfig: the
\* global aqlConfig.optimizationConfig
NewHeap(optimizationConfig) ==
    [vm |-> <<>>, pre |-> <<>>, rd |-> <<>>, wr |-> <<>>, nextVar |-> 1,
     aqlConfig |-> optimizationConfig]

\* results of a step that may throw
Thrown(err, arg, H) == [ok |-> FALSE, err |-> err, arg |-> arg, frag |-> <<>>, H |-> H]
Returned(frag, H) == [ok |-> TRUE, err |-> "", arg |-> "", frag |-> frag, H |-> H]


(***************************************************************************)
(* Query tree (query-tree/*.ts): every node is a record with a type field  *)
(***************************************************************************)
NoNode == [type |-> "undefined"]
VariableQueryNode(id, label) == [type |-> "Variable", id |-> id, label |-> label]
LiteralQueryNode(value) == [type |-> "Literal", value |-> value]
ConstBoolQueryNode(value) == [type |-> "ConstBool", value |-> value]
NullQueryNode == [type |-> "Null"]
ObjectQueryNode(properties) == [type |-> "Object", properties |-> properties]
PropertySpecification(propertyName, valueNode) ==
    [propertyName |-> propertyName, valueNode |-> valueNode]
ListQueryNode(itemNodes) == [type |-> "List", itemNodes |-> itemNodes]
FieldQueryNode(objectNode, field, path) ==
    [type |-> "Field", objectNode |-> objectNode, field |-> field, path |-> path]
VariableAssignmentQueryNode(variableNode, variableValueNode, resultNode) ==
    [type |-> "VariableAssignment", variableNode |-> variableNode,
     variableValueNode |-> variableValueNode, resultNode |-> resultNode]
PreExecQueryParms(query, resultVariable) ==
    [query |-> query, resultVariable |-> resultVariable, resultValidator |-> "none"]
WithPreExecutionQueryNode(preExecQueries, resultNode) ==
    [type |-> "WithPreExecution", preExecQueries |-> preExecQueries, resultNode |-> resultNode]
EntitiesQueryNode(rootEntityType) == [type |-> "Entities", rootEntityType |-> rootEntityType]
EntityFromIdQueryNode(rootEntityType, idNode) ==
    [type |-> "EntityFromId", rootEntityType |-> rootEntityType, idNode |-> idNode]
RootEntityIDQueryNode(objectNode) == [type |-> "RootEntityID", objectNode |-> objectNode]
FollowEdgeQueryNode(relation, isFromSide, sourceEntityNode) ==
    [type |-> "FollowEdge", relation |-> relation, isFromSide |-> isFromSide,
     sourceEntityNode |-> sourceEntityNode]
\* maxCount is <<>> when undefined and << n >> when set
TransformListQueryNode(listNode, itemVariable, filterNode, orderBy, skip, maxCount, innerNode) ==
    [type |-> "TransformList", listNode |-> listNode, itemVariable |-> itemVariable,
     filterNode |-> filterNode, orderBy |-> orderBy, skip |-> skip, maxCount |-> maxCount,
     innerNode |-> innerNode]
OrderClause(valueNode, direction) == [valueNode |-> valueNode, direction |-> direction]
CountQueryNode(listNode) == [type |-> "Count", listNode |-> listNode]
FirstOfListQueryNode(listNode) == [type |-> "FirstOfList", listNode |-> listNode]
BinaryOperationQueryNode(lhs, operator, rhs) ==
    [type |-> "BinaryOperation", lhs |-> lhs, operator |-> operator, rhs |-> rhs]
UnaryOperationQueryNode(valueNode, operator) ==
    [type |-> "UnaryOperation", valueNode |-> valueNode, operator |-> operator]
ConditionalQueryNode(condition, expr1, expr2) ==
    [type |-> "Conditional", condition |-> condition, expr1 |-> expr1, expr2 |-> expr2]
TypeCheckQueryNode(valueNode, basicType) ==
    [type |-> "TypeCheck", valueNode |-> valueNode, basicType |-> basicType]
SafeListQueryNode(sourceNode) == [type |-> "SafeList", sourceNode |-> sourceNode]
QuantifierFilterNode(quantifier, listNode, itemVariable, conditionNode) ==
    [type |-> "QuantifierFilter", quantifier |-> quantifier, listNode |-> listNode,
     itemVariable |-> itemVariable, conditionNode |-> conditionNode]
QuickSearchQueryNode(rootEntityType, itemVariable, qsFilterNode) ==
    [type |-> "QuickSearch", rootEntityType |-> rootEntityType,
     itemVariable |-> itemVariable, qsFilterNode |-> qsFilterNode]
CreateEntityQueryNode(rootEntityType, objectNode) ==
    [type |-> "CreateEntity", rootEntityType |-> rootEntityType, objectNode |-> objectNode]
UpdateEntitiesQueryNode(rootEntityType, listNode, currentEntityVariable, updates) ==
    [type |-> "UpdateEntities", rootEntityType |-> rootEntityType, listNode |-> listNode,
     currentEntityVariable |-> currentEntityVariable, updates |-> updates]
DeleteEntitiesQueryNode(rootEntityType, listNode) ==
    [type |-> "DeleteEntities", rootEntityType |-> rootEntityType, listNode |-> listNode]
EdgeIdentifier(fromIDNode, toIDNode) == [fromIDNode |-> fromIDNode, toIDNode |-> toIDNode]
AddEdgesQueryNode(relation, edges) == [type |-> "AddEdges", relation |-> relation, edges |-> edges]
RemoveEdgesQueryNode(relation, edgeFilter) ==
    [type |-> "RemoveEdges", relation |-> relation, edgeFilter |-> edgeFilter]
EdgeFilter(fromIDsNode, toIDsNode) == [fromIDsNode |-> fromIDsNode, toIDsNode |-> toIDsNode]
SetEdgeQueryNode(relation, existingEdge, newEdge) ==
    [type |-> "SetEdge", relation |-> relation, existingEdge |-> existingEdge, newEdge |-> newEdge]

\* quickSearchLanguage is <<>> when undefined
OperatorWithLanguageQueryNode(lhs, operator, rhs, quickSearchLanguage) ==
    [type |-> "OperatorWithLanguage", lhs |-> lhs, operator |-> operator, rhs |-> rhs,
     quickSearchLanguage |-> quickSearchLanguage]

\* schema-generation/filter-input-types/constants.ts
not(value) == UnaryOperationQueryNode(value, "NOT")

(***************************************************************************)
(* Rewrites of the query tree (query-tree/utils)                           *)
(***************************************************************************)
RECURSIVE simplifyBooleans(_)
simplifyBooleans(node) ==
    IF node.type = "UnaryOperation" /\ node.operator = "NOT"
    THEN LET inner == simplifyBooleans(node.valueNode)
         IN  IF inner.type = "ConstBool"
             THEN ConstBoolQueryNode(~inner.value)
             ELSE UnaryOperationQueryNode(inner, "NOT")
    ELSE IF node.type = "BinaryOperation" /\ node.operator \in {"AND", "OR"}
    THEN LET lhs == simplifyBooleans(node.lhs)
             rhs == simplifyBooleans(node.rhs)
             neutral == (node.operator = "AND")
         IN  IF lhs.type = "ConstBool"
             THEN IF lhs.value = neutral THEN rhs ELSE ConstBoolQueryNode(~neutral)
             ELSE IF rhs.type = "ConstBool" /\ rhs.value = neutral
             THEN lhs
             ELSE BinaryOperationQueryNode(lhs, node.operator, rhs)
    ELSE node

\* the result is [node, assignments]: the rewritten node and the lifted assignments
RECURSIVE extractVariableAssignments(_)
RECURSIVE extractVariableAssignmentsOfProperties(_)
extractVariableAssignmentsOfProperties(properties) ==
    IF Len(properties) = 0 THEN [properties |-> <<>>, assignments |-> <<>>]
    ELSE LET first == extractVariableAssignments(properties[1].valueNode)
             rest == extractVariableAssignmentsOfProperties(Tail(properties))
         IN  [properties |->
                  << PropertySpecification(properties[1].propertyName, first.node) >>
                      \o rest.properties,
              assignments |-> first.assignments \o rest.assignments]

extractVariableAssignments(node) ==
    CASE node.type = "VariableAssignment" ->
            LET r == extractVariableAssignments(node.resultNode)
            IN  [node |-> r.node, assignments |-> << node >> \o r.assignments]
      [] node.type = "UnaryOperation" ->
            LET r == extractVariableAssignments(node.valueNode)
            IN  [node |-> UnaryOperationQueryNode(r.node, node.operator),
                 assignments |-> r.assignments]
      [] node.type = "BinaryOperation" ->
            LET l == extractVariableAssignments(node.lhs)
                r == extractVariableAssignments(node.rhs)
            IN  [node |-> BinaryOperationQueryNode(l.node, node.operator, r.node),
                 assignments |-> l.assignments \o r.assignments]
      [] node.type = "FirstOfList" ->
            LET r == extractVariableAssignments(node.listNode)
            IN  [node |-> FirstOfListQueryNode(r.node), assignments |-> r.assignments]
      [] node.type = "Field" ->
            LET r == extractVariableAssignments(node.objectNode)
            IN  [node |-> FieldQueryNode(r.node, node.field, node.path),
                 assignments |-> r.assignments]
      [] node.type = "RootEntityID" ->
            LET r == extractVariableAssignments(node.objectNode)
            IN  [node |-> RootEntityIDQueryNode(r.node), assignments |-> r.assignments]
      [] node.type = "Object" ->
            LET r == extractVariableAssignmentsOfProperties(node.properties)
            IN  [node |-> ObjectQueryNode(r.properties), assignments |-> r.assignments]
      [] OTHER -> [node |-> node, assignments |-> <<>>]

\* database/like-helpers.ts: % and _ are the wildcards of a LIKE pattern
RECURSIVE likeLiteralPrefix(_)
likeLiteralPrefix(pattern) ==
    IF Len(pattern) = 0 \/ pattern[1] \in {"%", "_"} THEN <<>>
    ELSE << pattern[1] >> \o likeLiteralPrefix(Tail(pattern))

analyzeLikePatternPrefix(pattern) ==
    LET literalPrefix == likeLiteralPrefix(pattern)
    IN  [literalPrefix |-> literalPrefix,
         isLiteralPattern |-> Len(literalPrefix) = Len(pattern),
         isSimplePrefixPattern |->
             /\ Len(literalPrefix) = Len(pattern) - 1
             /\ pattern[Len(pattern)] = "%"]

(***************************************************************************)
(* QueryContext                                                            *)
(***************************************************************************)
ThrownContext(err, arg, H) == [ok |-> FALSE, err |-> err, arg |-> arg, ctx |-> NoNode, H |-> H]
ReturnedContext(ctx, H) == [ok |-> TRUE, err |-> "", arg |-> "", ctx |-> ctx, H |-> H]

\* a slip: the Map of a new context starts from the Map that was allocated last
NewQueryContext_SharedMap(H) ==
    [ctx |-> [variableMap |-> Len(H.vm) + 1,
              preExecQueries |-> Len(H.pre) + 1,
              readAccessedCollections |-> Len(H.rd) + 1,
              writeAccessedCollections |-> Len(H.wr) + 1],
     H |-> [H EXCEPT !.vm = Append(@, IF Len(@) = 0 THEN <<>> ELSE @[Len(@)]),
                     !.pre = Append(@, <<>>),
                     !.rd = Append(@, {}), !.wr = Append(@, {})]]

\* new QueryContext(): the field initialisers allocate a Map, an array and two Sets
NewQueryContext(H) ==
    [ctx |-> [variableMap |-> Len(H.vm) + 1,
              preExecQueries |-> Len(H.pre) + 1,
              readAccessedCollections |-> Len(H.rd) + 1,
              writeAccessedCollections |-> Len(H.wr) + 1],
     H |-> [H EXCEPT !.vm = Append(@, <<>>), !.pre = Append(@, <<>>),
                     !.rd = Append(@, {}), !.wr = Append(@, {})]]

\* new AQLVariable(label) / new AQLQueryResultVariable(label): a fresh object
NewAQLVariable(label, isResult, H) ==
    [aqlVar |-> [id |-> H.nextVar, label |-> label, isResult |-> isResult],
     H |-> [H EXCEPT !.nextVar = @ + 1]]

\* the Map of a context: from the id of a VariableQueryNode to its fragment variable
variableMapOf(this, H) == H.vm[this.variableMap]

\* a slip: the context of a pre-execution query inherits every variable
newPreExecContext_AllVariables(this, H) ==
    LET new == NewQueryContext(H)
        map == variableMapOf(this, H)
    IN  [ctx |-> [new.ctx EXCEPT
                     !.readAccessedCollections = this.readAccessedCollections,
                     !.writeAccessedCollections = this.writeAccessedCollections],
         H |-> [new.H EXCEPT !.vm[new.ctx.variableMap] = map]]

\* a slip: the context of a pre-execution query keeps the Sets of its own
newPreExecContext_OwnSets(this, H) ==
    LET new == NewQueryContext(H)
        map == variableMapOf(this, H)
        resultVariables == {id \in DOMAIN map : map[id].isResult}
    IN  [ctx |-> new.ctx,
         H |-> [new.H EXCEPT
                   !.vm[new.ctx.variableMap] = [id \in resultVariables |-> map[id]]]]

newPreExecContext(this, H) ==
    LET new == NewQueryContext(H)
        map == variableMapOf(this, H)
        resultVariables == {id \in DOMAIN map : map[id].isResult}
    IN  [ctx |-> [new.ctx EXCEPT
                     !.readAccessedCollections = this.readAccessedCollections,
                     !.writeAccessedCollections = this.writeAccessedCollections],
         H |-> [new.H EXCEPT
                   !.vm[new.ctx.variableMap] = [id \in resultVariables |-> map[id]]]]

\* a slip: no check that the variable is already present
newNestedContextWithNewVariable_NoCheck(this, variableNode, aqlVariable, H) ==
    LET nested(new) ==
            ReturnedContext(
                [new.ctx EXCEPT
                    !.variableMap = Len(new.H.vm) + 1,
                    !.preExecQueries = this.preExecQueries,
                    !.readAccessedCollections = this.readAccessedCollections,
                    !.writeAccessedCollections = this.writeAccessedCollections],
                [new.H EXCEPT
                    !.vm = Append(@, (variableNode.id :> aqlVariable)
                                         @@ variableMapOf(this, H))])
    IN  nested(NewQueryContext(H))

\* a slip: the new context keeps the pre-execution list of its own
newNestedContextWithNewVariable_OwnQueries(this, variableNode, aqlVariable, H) ==
    LET nested(new) ==
            ReturnedContext(
                [new.ctx EXCEPT
                    !.variableMap = Len(new.H.vm) + 1,
                    !.readAccessedCollections = this.readAccessedCollections,
                    !.writeAccessedCollections = this.writeAccessedCollections],
                [new.H EXCEPT
                    !.vm = Append(@, (variableNode.id :> aqlVariable)
                                         @@ variableMapOf(this, H))])
    IN  IF variableNode.id \in DOMAIN variableMapOf(this, H)
        THEN ThrownContext("introduced twice", variableNode.label, H)
        ELSE nested(NewQueryContext(H))

\* a slip: the new context shares the Map of the receiving one and adds to it
newNestedContextWithNewVariable_SharedMap(this, variableNode, aqlVariable, H) ==
    IF variableNode.id \in DOMAIN variableMapOf(this, H)
    THEN ThrownContext("introduced twice", variableNode.label, H)
    ELSE ReturnedContext(this,
             [H EXCEPT !.vm[this.variableMap] = (variableNode.id :> aqlVariable) @@ @])

newNestedContextWithNewVariable(this, variableNode, aqlVariable, H) ==
    LET nested(new) ==
            ReturnedContext(
                [new.ctx EXCEPT
                    !.variableMap = Len(new.H.vm) + 1,
                    !.preExecQueries = this.preExecQueries,
                    !.readAccessedCollections = this.readAccessedCollections,
                    !.writeAccessedCollections = this.writeAccessedCollections],
                [new.H EXCEPT
                    !.vm = Append(@, (variableNode.id :> aqlVariable)
                                         @@ variableMapOf(this, H))])
    IN  IF variableNode.id \in DOMAIN variableMapOf(this, H)
        THEN ThrownContext("introduced twice", variableNode.label, H)
        ELSE nested(NewQueryContext(H))

introduceVariable(this, variableNode, H) ==
    LET bind(variable) ==
            newNestedContextWithNewVariable(this, variableNode, variable.aqlVar, variable.H)
    IN  bind(NewAQLVariable(variableNode.label, FALSE, H))

\* a slip: every access is recorded as a read
addCollectionAccess_AlwaysRead(this, collection, accessType, H) ==
    [H EXCEPT !.rd[this.readAccessedCollections] = @ \cup {collection}]

addCollectionAccess(this, collection, accessType, H) ==
    CASE accessType = "READ" ->
            [H EXCEPT !.rd[this.readAccessedCollections] = @ \cup {collection}]
      [] accessType = "WRITE" ->
            [H EXCEPT !.wr[this.writeAccessedCollections] = @ \cup {collection}]

\* a slip: the variable is looked up by its label, the latest binding wins
getVariable_ByLabel(this, variableNode, H) ==
    LET map == variableMapOf(this, H)
        sameLabel == { id \in DOMAIN map : map[id].label = variableNode.label }
        latest == CHOOSE id \in sameLabel : \A other \in sameLabel : map[other].id <= map[id].id
    IN  IF sameLabel = {}
        THEN Thrown("used but not introduced", variableNode.label, H)
        ELSE Returned(aqlVariableToken(map[latest]), H)

getVariable(this, variableNode, H) ==
    IF variableNode.id \notin DOMAIN variableMapOf(this, H)
    THEN Thrown("used but not introduced", variableNode.label, H)
    ELSE Returned(aqlVariableToken(variableMapOf(this, H)[variableNode.id]), H)

getPreExecuteQueries(this, H) == H.pre[this.preExecQueries]
getReadAccessedCollections(this, H) == H.rd[this.readAccessedCollections]
getWriteAccessedCollections(this, H) == H.wr[this.writeAccessedCollections]

(***************************************************************************)
(* The lowering pass                                                       *)
(***************************************************************************)
RECURSIVE processNode(_, _, _)
RECURSIVE createAQLCompoundQuery(_, _, _, _, _)

Rethrow(r) == Thrown(r.err, r.arg, r.H)

NoAQLVariable == [id |-> 0, label |-> "", isResult |-> FALSE]
NoQuery ==
    [preExecQueries |-> 0, aqlQuery |-> <<>>, resultVar |-> NoAQLVariable,
     resultValidator |-> "none", readAccessedCollections |-> {},
     writeAccessedCollections |-> {}]
ThrownQuery(r) == [ok |-> FALSE, err |-> r.err, arg |-> r.arg, cq |-> NoQuery, H |-> r.H]
ReturnedQuery(cq, H) == [ok |-> TRUE, err |-> "", arg |-> "", cq |-> cq, H |-> H]

\* nodes.map(node => processNode(node, context))
RECURSIVE processNodes(_, _, _)
processNodes(nodes, context, H) ==
    IF Len(nodes) = 0
    THEN [ok |-> TRUE, err |-> "", arg |-> "", frags |-> <<>>, H |-> H]
    ELSE LET map(first) ==
                 IF ~first.ok
                 THEN [ok |-> FALSE, err |-> first.err, arg |-> first.arg, frags |-> <<>>,
                       H |-> first.H]
                 ELSE LET rest == processNodes(Tail(nodes), context, first.H)
                      IN  IF ~rest.ok THEN rest
                          ELSE [rest EXCEPT !.frags = << first.frag >> \o @]
         IN  map(processNode(nodes[1], context, H))

\* the loop that turns the lifted assignments into LET lines
RECURSIVE processVariableAssignments(_, _, _)
processVariableAssignments(variableAssignmentNodes, context, H) ==
    IF Len(variableAssignmentNodes) = 0
    THEN [ok |-> TRUE, err |-> "", arg |-> "", ctx |-> context, frags |-> <<>>, H |-> H]
    ELSE LET assignmentNode == variableAssignmentNodes[1]
             failed(r) == [ok |-> FALSE, err |-> r.err, arg |-> r.arg, ctx |-> context,
                           frags |-> <<>>, H |-> r.H]
             \* variableAssignments.push(aql`LET ${tmpVar} = ${value}`), then the next turn
             push(innerContext, tmpVar, value) ==
                 IF ~value.ok THEN failed(value)
                 ELSE LET rest == processVariableAssignments(Tail(variableAssignmentNodes),
                                                             innerContext, value.H)
                      IN  IF ~rest.ok THEN rest
                          ELSE [rest EXCEPT !.frags =
                                   << aqlCode("LET ") \o tmpVar.frag \o aqlCode(" = ")
                                          \o value.frag >> \o @]
             assign(introduced) ==
                 IF ~introduced.ok THEN failed(introduced)
                 ELSE push(introduced.ctx,
                           getVariable(introduced.ctx, assignmentNode.variableNode,
                                       introduced.H),
                           processNode(assignmentNode.variableValueNode, introduced.ctx,
                                       introduced.H))
         IN  assign(introduceVariable(context, assignmentNode.variableNode, H))

createAQLCompoundQuery(node, resultVariable, resultValidator, context, H) ==
    LET extracted == extractVariableAssignments(node)
        compound(assignments, returned) ==
            IF ~returned.ok THEN ThrownQuery(returned)
            ELSE ReturnedQuery(
                    [preExecQueries |-> assignments.ctx.preExecQueries,
                     aqlQuery |-> aqlLines(assignments.frags
                                      \o << aqlCode("RETURN ") \o returned.frag >>),
                     resultVar |-> resultVariable,
                     resultValidator |-> resultValidator,
                     readAccessedCollections |->
                         getReadAccessedCollections(assignments.ctx, returned.H),
                     writeAccessedCollections |->
                         getWriteAccessedCollections(assignments.ctx, returned.H)],
                    returned.H)
        return(assignments) ==
            IF ~assignments.ok THEN ThrownQuery(assignments)
            ELSE compound(assignments,
                          processNode(extracted.node, assignments.ctx, assignments.H))
    IN  return(processVariableAssignments(extracted.assignments, context, H))

\* a slip: the query is compiled in the context that already binds resultVariable
addPreExecuteQuery_OwnResultVisible(this, preExecQuery, resultVariable, resultValidator, H) ==
    LET hasResult == resultVariable.type /= "undefined"
        resultVar == NewAQLVariable(resultVariable.label, TRUE, H)
        \* this.preExecQueries.push(aqlQuery); return newContext
        push(newContext, aqlQuery) ==
            IF ~aqlQuery.ok THEN ThrownContext(aqlQuery.err, aqlQuery.arg, aqlQuery.H)
            ELSE ReturnedContext(newContext.ctx,
                     [aqlQuery.H EXCEPT !.pre[this.preExecQueries] = Append(@, aqlQuery.cq)])
        compile(newContext, preExecContext) ==
            push(newContext,
                 createAQLCompoundQuery(preExecQuery,
                     IF hasResult THEN resultVar.aqlVar ELSE NoAQLVariable,
                     resultValidator, preExecContext.ctx, preExecContext.H))
        nest(newContext) ==
            IF ~newContext.ok THEN newContext
            ELSE compile(newContext, newPreExecContext(newContext.ctx, newContext.H))
    IN  nest(IF hasResult
             THEN newNestedContextWithNewVariable(this, resultVariable, resultVar.aqlVar,
                                                  resultVar.H)
             ELSE ReturnedContext(this, H))

addPreExecuteQuery(this, preExecQuery, resultVariable, resultValidator, H) ==
    LET hasResult == resultVariable.type /= "undefined"
        resultVar == NewAQLVariable(resultVariable.label, TRUE, H)
        \* this.preExecQueries.push(aqlQuery); return newContext
        push(newContext, aqlQuery) ==
            IF ~aqlQuery.ok THEN ThrownContext(aqlQuery.err, aqlQuery.arg, aqlQuery.H)
            ELSE ReturnedContext(newContext.ctx,
                     [aqlQuery.H EXCEPT !.pre[this.preExecQueries] = Append(@, aqlQuery.cq)])
        compile(newContext, preExecContext) ==
            push(newContext,
                 createAQLCompoundQuery(preExecQuery,
                     IF hasResult THEN resultVar.aqlVar ELSE NoAQLVariable,
                     resultValidator, preExecContext.ctx, preExecContext.H))
        nest(newContext) ==
            IF ~newContext.ok THEN newContext
            ELSE compile(newContext, newPreExecContext(this, newContext.H))
    IN  nest(IF hasResult
             THEN newNestedContextWithNewVariable(this, resultVariable, resultVar.aqlVar,
                                                  resultVar.H)
             ELSE ReturnedContext(this, H))

getCollectionForType(type, accessType, context, H) ==
    LET name == getCollectionNameForRootEntity(type)
    IN  Returned(aqlCollection(name), addCollectionAccess(context, name, accessType, H))

getCollectionForRelation(relation, accessType, context, H) ==
    LET name == getCollectionNameForRelation(relation)
    IN  Returned(aqlCollection(name), addCollectionAccess(context, name, accessType, H))

\* a slip: every key is written into the query text as a quoted string
safeJSONKey_AlwaysString(key) == aqlString(key)

safeJSONKey(key) == IF isSafeIdentifier(key) THEN aqlString(key) ELSE aqlValue(StringValue(key))

registerLiteralQueryNode(node, context, H) == Returned(aqlValue(node.value), H)

registerNullQueryNode(node, context, H) == Returned(aqlCode("null"), H)

registerRuntimeErrorQueryNode(node, context, H) ==
    Returned(aqlCode("{") \o aqlCode("RUNTIME_ERROR_TOKEN") \o aqlCode(": ")
                 \o aqlValue(StringValue(node.message)) \o aqlCode("}"), H)

registerConstBoolQueryNode(node, context, H) ==
    Returned(IF node.value THEN aqlCode("true") ELSE aqlCode("false"), H)

registerConstIntQueryNode(node, context, H) == Returned(aqlInteger(node.value), H)

registerObjectQueryNode(node, context, H) ==
    IF Len(node.properties) = 0 THEN Returned(aqlCode("{}"), H)
    ELSE LET values == processNodes([i \in 1..Len(node.properties) |->
                                        node.properties[i].valueNode], context, H)
             properties == [i \in 1..Len(node.properties) |->
                              safeJSONKey(node.properties[i].propertyName)
                                  \o aqlCode(": ") \o values.frags[i]]
         IN  IF ~values.ok THEN Rethrow(values)
             ELSE Returned(aqlLines(<< aqlCode("{"),
                                       aqlIndent(aqlJoin(properties, aqlCode(",\n"))),
                                       aqlCode("}") >>), values.H)

registerListQueryNode(node, context, H) ==
    IF Len(node.itemNodes) = 0 THEN Returned(aqlCode("[]"), H)
    ELSE LET items == processNodes(node.itemNodes, context, H)
         IN  IF ~items.ok THEN Rethrow(items)
             ELSE Returned(aqlLines(<< aqlCode("["),
                                       aqlIndent(aqlJoin(items.frags, aqlCode(",\n"))),
                                       aqlCode("]") >>), items.H)

registerConcatListsQueryNode(node, context, H) ==
    LET listNodes == processNodes(node.listNodes, context, H)
    IN  IF ~listNodes.ok THEN Rethrow(listNodes)
        ELSE Returned(aqlCode("UNION(") \o aqlJoin(listNodes.frags, aqlCode(", "))
                          \o aqlCode(")"), listNodes.H)

registerMergeObjectsQueryNode(node, context, H) ==
    LET objectList == processNodes(node.objectNodes, context, H)
    IN  IF ~objectList.ok THEN Rethrow(objectList)
        ELSE Returned(aqlCode("MERGE(") \o aqlJoin(objectList.frags, aqlCode(", "))
                          \o aqlCode(")"), objectList.H)

registerVariableQueryNode(node, context, H) == getVariable(context, node, H)

registerVariableAssignmentQueryNode(node, context, H) ==
    LET assign(newContext) ==
            LET tmpVar == getVariable(newContext.ctx, node.variableNode, newContext.H)
                value == processNode(node.variableValueNode, newContext.ctx, newContext.H)
                result == processNode(node.resultNode, newContext.ctx, value.H)
            IN  IF ~newContext.ok THEN Rethrow(newContext)
                ELSE IF ~value.ok THEN value
                ELSE IF ~result.ok THEN result
                ELSE Returned(parenthesizeObject(
                         << aqlCode("LET ") \o tmpVar.frag \o aqlCode(" = ") \o value.frag,
                            aqlCode("RETURN ") \o result.frag >>), result.H)
    IN  assign(introduceVariable(context, node.variableNode, H))

\* the loop over node.preExecQueries
RECURSIVE addPreExecuteQueries(_, _, _)
addPreExecuteQueries(preExecQueries, currentContext, H) ==
    IF Len(preExecQueries) = 0 THEN ReturnedContext(currentContext, H)
    ELSE LET preExecParm == preExecQueries[1]
             continue(next) ==
                 IF ~next.ok THEN next
                 ELSE addPreExecuteQueries(Tail(preExecQueries), next.ctx, next.H)
         IN  continue(addPreExecuteQuery(currentContext, preExecParm.query,
                          preExecParm.resultVariable, preExecParm.resultValidator, H))

\* a slip: the result node is lowered in the context the node was reached with
registerWithPreExecutionQueryNode_ResultInOuterContext(node, context, H) ==
    LET return(currentContext) ==
            IF ~currentContext.ok THEN Rethrow(currentContext)
            ELSE processNode(node.resultNode, context, currentContext.H)
    IN  return(addPreExecuteQueries(node.preExecQueries, context, H))

registerWithPreExecutionQueryNode(node, context, H) ==
    LET return(currentContext) ==
            IF ~currentContext.ok THEN Rethrow(currentContext)
            ELSE processNode(node.resultNode, currentContext.ctx, currentContext.H)
    IN  return(addPreExecuteQueries(node.preExecQueries, context, H))

registerEntityFromIdQueryNode(node, context, H) ==
    LET collection == getCollectionForType(node.rootEntityType, "READ", context, H)
        id == processNode(node.idNode, context, collection.H)
    IN  IF ~id.ok THEN id
        ELSE Returned(aqlCode("DOCUMENT(") \o collection.frag \o aqlCode(", ") \o id.frag
                          \o aqlCode(")"), id.H)

getFieldAccessFragment(field) ==
    IF isSafeIdentifier(field)
    THEN aqlCode(".") \o aqlIdentifierToken(field)
    ELSE aqlCode("[") \o aqlValue(StringValue(field)) \o aqlCode("]")

\* aql.identifier throws for a name that is no safe identifier
RECURSIVE getFieldPathAccessFragment(_, _)
getFieldPathAccessFragment(path, H) ==
    IF Len(path) = 0 THEN Returned(<<>>, H)
    ELSE IF ~isSafeIdentifier(path[1]) THEN Thrown("Invalid identifier", "path", H)
    ELSE LET rest == getFieldPathAccessFragment(Tail(path), H)
         IN  IF ~rest.ok THEN rest
             ELSE Returned(aqlCode(".") \o aqlIdentifierToken(path[1]) \o rest.frag, H)

registerFieldQueryNode(node, context, H) ==
    LET object == processNode(node.objectNode, context, H)
        path == getFieldPathAccessFragment(node.path, object.H)
    IN  IF ~object.ok THEN object
        ELSE IF ~path.ok THEN path
        ELSE Returned(object.frag \o path.frag \o getFieldAccessFragment(node.field),
                      object.H)

registerRootEntityIDQueryNode(node, context, H) ==
    LET object == processNode(node.objectNode, context, H)
    IN  IF ~object.ok THEN object ELSE Returned(object.frag \o aqlCode("._key"), object.H)

registerQuickSearchQueryNode(node, context, H) ==
    LET search(itemContext) ==
            LET itemVar == getVariable(itemContext.ctx, node.itemVariable, itemContext.H)
                filter == processNode(node.qsFilterNode, itemContext.ctx, itemContext.H)
            IN  IF ~itemContext.ok THEN Rethrow(itemContext)
                ELSE IF ~filter.ok THEN filter
                ELSE Returned(aqlCode("(FOR ") \o itemVar.frag \o aqlCode(" IN ")
                         \o aqlIdentifierToken(
                                getFlexSearchViewNameForRootEntity(node.rootEntityType))
                         \o aqlCode(" SEARCH ") \o filter.frag \o aqlCode(" RETURN ")
                         \o itemVar.frag \o aqlCode(")"), filter.H)
    IN  search(introduceVariable(context, node.itemVariable, H))

\* Processes a FollowEdgeQueryNode into a fragment to be used within IN ...
getSimpleFollowEdgeFragment(node, context, H) ==
    LET dir == IF node.isFromSide THEN aqlCode("OUTBOUND") ELSE aqlCode("INBOUND")
        source == processNode(node.sourceEntityNode, context, H)
        collection == getCollectionForRelation(node.relation, "READ", context, source.H)
    IN  IF ~source.ok THEN source
        ELSE Returned(dir \o aqlCode("  ") \o source.frag \o aqlCode(" ") \o collection.frag,
                      collection.H)

\* a slip: DESC is written for the ascending clauses
generateSortAQL_AscendingMarked(orderBy, context, H) ==
    IF Len(orderBy) = 0 THEN Returned(<<>>, H)
    ELSE LET dirAQL(dir) == IF dir = "ASCENDING" THEN aqlCode(" DESC") ELSE <<>>
             sort(values) ==
                 IF ~values.ok THEN Rethrow(values)
                 ELSE Returned(aqlCode("SORT ")
                          \o aqlJoin([i \in 1..Len(orderBy) |->
                                         aqlCode("(") \o values.frags[i] \o aqlCode(") ")
                                             \o dirAQL(orderBy[i].direction)],
                                     aqlCode(", ")), values.H)
         IN  sort(processNodes([i \in 1..Len(orderBy) |-> orderBy[i].valueNode],
                               context, H))

\* the clauses cl => (value) [DESC] of generateSortAQL
generateSortAQL(orderBy, context, H) ==
    IF Len(orderBy) = 0 THEN Returned(<<>>, H)
    ELSE LET dirAQL(dir) == IF dir = "DESCENDING" THEN aqlCode(" DESC") ELSE <<>>
             sort(values) ==
                 IF ~values.ok THEN Rethrow(values)
                 ELSE Returned(aqlCode("SORT ")
                          \o aqlJoin([i \in 1..Len(orderBy) |->
                                         aqlCode("(") \o values.frags[i] \o aqlCode(") ")
                                             \o dirAQL(orderBy[i].direction)],
                                     aqlCode(", ")), values.H)
         IN  sort(processNodes([i \in 1..Len(orderBy) |-> orderBy[i].valueNode],
                               context, H))

\* the limitClause of a TransformListQueryNode
\* a slip: maxCount is tested for truthiness, so that 0 counts as unset
limitClause_Truthy(node) ==
    IF node.maxCount /= <<>> /\ node.maxCount /= << 0 >>
    THEN IF node.skip = 0
         THEN aqlCode("LIMIT ") \o aqlValue(NumberValue(node.maxCount[1]))
         ELSE aqlCode("LIMIT ") \o aqlValue(NumberValue(node.skip)) \o aqlCode(", ")
                  \o aqlValue(NumberValue(node.maxCount[1]))
    ELSE IF node.skip > 0
    THEN aqlCode("LIMIT ") \o aqlValue(NumberValue(node.skip)) \o aqlCode(", ")
             \o aqlValue(MAX_SAFE_INTEGER)
    ELSE <<>>

limitClause(node) ==
    IF node.maxCount /= <<>>
    THEN IF node.skip = 0
         THEN aqlCode("LIMIT ") \o aqlValue(NumberValue(node.maxCount[1]))
         ELSE aqlCode("LIMIT ") \o aqlValue(NumberValue(node.skip)) \o aqlCode(", ")
                  \o aqlValue(NumberValue(node.maxCount[1]))
    ELSE IF node.skip > 0
    THEN aqlCode("LIMIT ") \o aqlValue(NumberValue(node.skip)) \o aqlCode(", ")
             \o aqlValue(MAX_SAFE_INTEGER)
    ELSE <<>>

\* a slip: the projection is indirected without a limit as well
useIndirectedProjection_Unlimited(node, H) ==
    /\ H.aqlConfig.enableExperimentalProjectionIndirection
    /\ node.listNode.type = "Entities"
    /\ \/ H.aqlConfig.experimentalProjectionIndirectionTypeNames = <<>>
       \/ node.listNode.rootEntityType
              \in H.aqlConfig.experimentalProjectionIndirectionTypeNames[1]
    /\ ~(node.innerNode.type = "Variable" /\ node.innerNode.id = node.itemVariable.id)

\* experimentalProjectionIndirectionTypeNames is <<>> when undefined, << names >> when set
useIndirectedProjection(node, H) ==
    /\ H.aqlConfig.enableExperimentalProjectionIndirection
    /\ node.listNode.type = "Entities"
    /\ \/ H.aqlConfig.experimentalProjectionIndirectionTypeNames = <<>>
       \/ node.listNode.rootEntityType
              \in H.aqlConfig.experimentalProjectionIndirectionTypeNames[1]
    /\ ~(node.innerNode.type = "Variable" /\ node.innerNode.id = node.itemVariable.id)
    /\ node.maxCount /= <<>>

registerTransformListQueryNode(node, context, H) ==
    LET indirected == useIndirectedProjection(node, H)
        isFollowEdge == node.listNode.type = "FollowEdge"
        filter == simplifyBooleans(node.filterNode)
        omitFilter == filter.type = "ConstBool" /\ filter.value
        \* the FOR block of the clauses and the lowered inner node
        loop(itemVar, itemProjectionVar, list, variableAssignments, filtered, sort, inner) ==
            IF ~inner.ok THEN inner
            ELSE Returned(parenthesizeList(
                     << aqlCode("FOR ") \o itemVar.frag,
                        aqlCode("IN ") \o list.frag,
                        IF omitFilter THEN <<>> ELSE aqlCode("FILTER ") \o filtered.frag,
                        IF isFollowEdge
                        THEN aqlCode("FILTER ") \o itemVar.frag \o aqlCode(" != null")
                        ELSE <<>>,
                        sort.frag,
                        limitClause(node),
                        IF indirected
                        THEN aqlCode("LET ") \o itemProjectionVar.frag
                                 \o aqlCode(" = DOCUMENT(") \o itemVar.frag
                                 \o aqlCode("._id)")
                        ELSE <<>> >>
                     \o variableAssignments.frags
                     \o << aqlCode("RETURN ") \o inner.frag >>), inner.H)
        sorted(itemContext, itemProjectionContext, resultNode, list, variableAssignments, filtered, sort) ==
            IF ~sort.ok THEN sort
            ELSE loop(getVariable(itemContext.ctx, node.itemVariable, itemContext.H),
                      getVariable(itemProjectionContext.ctx, node.itemVariable,
                                  itemProjectionContext.H),
                      list, variableAssignments, filtered, sort,
                      processNode(resultNode, variableAssignments.ctx, sort.H))
        filteredBy(itemContext, itemProjectionContext, resultNode, list, variableAssignments, filtered) ==
            IF ~filtered.ok THEN filtered
            ELSE sorted(itemContext, itemProjectionContext, resultNode, list,
                        variableAssignments, filtered,
                        generateSortAQL(node.orderBy, itemContext.ctx, filtered.H))
        assigned(itemContext, itemProjectionContext, resultNode, list, variableAssignments) ==
            IF ~variableAssignments.ok THEN Rethrow(variableAssignments)
            ELSE filteredBy(itemContext, itemProjectionContext, resultNode, list,
                            variableAssignments,
                            IF omitFilter THEN Returned(<<>>, variableAssignments.H)
                            ELSE processNode(filter, itemContext.ctx, variableAssignments.H))
        listed(itemContext, itemProjectionContext, extracted, list) ==
            IF ~list.ok THEN list
            ELSE assigned(itemContext, itemProjectionContext, extracted.node, list,
                          processVariableAssignments(extracted.assignments,
                              itemProjectionContext.ctx, list.H))
        projected(itemContext, itemProjectionContext) ==
            IF ~itemProjectionContext.ok THEN Rethrow(itemProjectionContext)
            ELSE listed(itemContext, itemProjectionContext,
                        extractVariableAssignments(node.innerNode),
                        IF isFollowEdge
                        THEN getSimpleFollowEdgeFragment(node.listNode, context,
                                                         itemProjectionContext.H)
                        ELSE processNode(node.listNode, context, itemProjectionContext.H))
        introduced(itemContext) ==
            IF ~itemContext.ok THEN Rethrow(itemContext)
            ELSE projected(itemContext,
                           IF indirected
                           THEN introduceVariable(context, node.itemVariable, itemContext.H)
                           ELSE itemContext)
    IN  introduced(introduceVariable(context, node.itemVariable, H))

\* a slip: only Entities takes the LENGTH form
registerCountQueryNode_EntitiesOnly(node, context, H) ==
    IF node.listNode.type = "Entities"
    THEN LET list == processNode(node.listNode, context, H)
         IN  IF ~list.ok THEN list
             ELSE Returned(aqlCode("LENGTH(") \o list.frag \o aqlCode(")"), list.H)
    ELSE LET itemVar == NewAQLVariable("item", FALSE, H)
             countVar == NewAQLVariable("count", FALSE, itemVar.H)
             list == processNode(node.listNode, context, countVar.H)
         IN  IF ~list.ok THEN list
             ELSE Returned(parenthesizeObject(
                      << aqlCode("FOR ") \o aqlVariableToken(itemVar.aqlVar),
                         aqlCode("IN ") \o list.frag,
                         aqlCode("COLLECT WITH COUNT INTO ")
                             \o aqlVariableToken(countVar.aqlVar),
                         aqlCode("return ") \o aqlVariableToken(countVar.aqlVar) >>), list.H)

registerCountQueryNode(node, context, H) ==
    IF node.listNode.type = "Field" \/ node.listNode.type = "Entities"
    THEN LET list == processNode(node.listNode, context, H)
         IN  IF ~list.ok THEN list
             ELSE Returned(aqlCode("LENGTH(") \o list.frag \o aqlCode(")"), list.H)
    ELSE LET itemVar == NewAQLVariable("item", FALSE, H)
             countVar == NewAQLVariable("count", FALSE, itemVar.H)
             list == processNode(node.listNode, context, countVar.H)
         IN  IF ~list.ok THEN list
             ELSE Returned(parenthesizeObject(
                      << aqlCode("FOR ") \o aqlVariableToken(itemVar.aqlVar),
                         aqlCode("IN ") \o list.frag,
                         aqlCode("COLLECT WITH COUNT INTO ")
                             \o aqlVariableToken(countVar.aqlVar),
                         aqlCode("return ") \o aqlVariableToken(countVar.aqlVar) >>), list.H)

registerFirstOfListQueryNode(node, context, H) ==
    LET list == processNode(node.listNode, context, H)
    IN  IF ~list.ok THEN list
        ELSE Returned(aqlCode("FIRST(") \o list.frag \o aqlCode(")"), list.H)

\* <<>> when the operator has no native token
getAQLOperator(op) ==
    CASE op = "AND" -> aqlCode("&&")
      [] op = "OR" -> aqlCode("||")
      [] op = "EQUAL" -> aqlCode("==")
      [] op = "UNEQUAL" -> aqlCode("!=")
      [] op = "LESS_THAN" -> aqlCode("<")
      [] op = "LESS_THAN_OR_EQUAL" -> aqlCode("<=")
      [] op = "GREATER_THAN" -> aqlCode(">")
      [] op = "GREATER_THAN_OR_EQUAL" -> aqlCode(">=")
      [] op = "IN" -> aqlCode("IN")
      [] op = "ADD" -> aqlCode("+")
      [] op = "SUBTRACT" -> aqlCode("-")
      [] op = "MULTIPLY" -> aqlCode("*")
      [] op = "DIVIDE" -> aqlCode("/")
      [] op = "MODULO" -> aqlCode("%")
      [] OTHER -> <<>>

\* String.fromCodePoint(0x10FFFF)
maxChar == "U+10FFFF"

\* a slip: the empty prefix takes the range form as well
getFastStartsWithQuery_NoEmptyPrefix(lhs, rhsValue) ==
    aqlCode("(") \o lhs \o aqlCode(" >= UPPER(") \o aqlValue(StringValue(rhsValue))
        \o aqlCode(") && ") \o lhs \o aqlCode(" < LOWER(")
        \o aqlValue(StringValue(rhsValue \o << maxChar >>)) \o aqlCode("))")

getFastStartsWithQuery(lhs, rhsValue) ==
    IF Len(rhsValue) = 0
    THEN aqlCode("IS_STRING(") \o lhs \o aqlCode(")")
    ELSE aqlCode("(") \o lhs \o aqlCode(" >= UPPER(") \o aqlValue(StringValue(rhsValue))
             \o aqlCode(") && ") \o lhs \o aqlCode(" < LOWER(")
             \o aqlValue(StringValue(rhsValue \o << maxChar >>)) \o aqlCode("))")

\* a slip: the literal is compared as it is, whatever the case of its characters
getEqualsIgnoreCaseQuery_CaseSensitive(lhs, rhsValue) ==
    aqlCode("(") \o lhs \o aqlCode(" == ") \o aqlValue(StringValue(rhsValue)) \o aqlCode(")")

getEqualsIgnoreCaseQuery(lhs, rhsValue) ==
    IF isStringCaseInsensitive(rhsValue)
    THEN aqlCode("(") \o lhs \o aqlCode(" == ") \o aqlValue(StringValue(rhsValue))
             \o aqlCode(")")
    ELSE aqlCode("(") \o lhs \o aqlCode(" >= ")
             \o aqlCode("UPPER(") \o aqlValue(StringValue(rhsValue)) \o aqlCode(")")
             \o aqlCode(" && ") \o lhs \o aqlCode(" <= ")
             \o aqlCode("LOWER(") \o aqlValue(StringValue(rhsValue)) \o aqlCode(")")
             \o aqlCode(")")

isLiteralString(node) == node.type = "Literal" /\ node.value.ty = "string"

registerBinaryOperationQueryNode(node, context, H) ==
    LET l == processNode(node.lhs, context, H)
        r == processNode(node.rhs, context, l.H)
        lhs == l.frag
        rhs == r.frag
        op == getAQLOperator(node.operator)
        slowFrag == aqlCode("(LEFT(") \o lhs \o aqlCode(", LENGTH(") \o rhs
                        \o aqlCode(")) == ") \o rhs \o aqlCode(")")
        slowLikeFrag == aqlCode("LIKE(") \o lhs \o aqlCode(", ") \o rhs \o aqlCode(", true)")
        like == analyzeLikePatternPrefix(node.rhs.value.s)
        fastFrag == getFastStartsWithQuery(lhs, like.literalPrefix)
    IN  IF ~l.ok THEN l
        ELSE IF ~r.ok THEN r
        ELSE IF op /= <<>>
        THEN Returned(aqlCode("(") \o lhs \o aqlCode(" ") \o op \o aqlCode(" ") \o rhs
                          \o aqlCode(")"), r.H)
        ELSE CASE node.operator = "CONTAINS" ->
                    Returned(aqlCode("(") \o lhs \o aqlCode(" LIKE CONCAT(\"%\", ") \o rhs
                                 \o aqlCode(", \"%\"))"), r.H)
               [] node.operator = "STARTS_WITH" ->
                    IF isLiteralString(node.rhs)
                    THEN Returned(getFastStartsWithQuery(lhs, node.rhs.value.s)
                                      \o aqlCode(" && ") \o slowFrag, r.H)
                    ELSE Returned(slowFrag, r.H)
               [] node.operator = "ENDS_WITH" ->
                    Returned(aqlCode("(RIGHT(") \o lhs \o aqlCode(", LENGTH(") \o rhs
                                 \o aqlCode(")) == ") \o rhs \o aqlCode(")"), r.H)
               [] node.operator = "LIKE" ->
                    IF isLiteralString(node.rhs)
                    THEN IF like.isLiteralPattern
                         THEN Returned(getEqualsIgnoreCaseQuery(lhs, like.literalPrefix), r.H)
                         ELSE IF like.isSimplePrefixPattern
                         THEN Returned(fastFrag, r.H)
                         ELSE Returned(aqlCode("(") \o fastFrag \o aqlCode(" && ")
                                           \o slowLikeFrag \o aqlCode(")"), r.H)
                    ELSE Returned(slowLikeFrag, r.H)
               [] node.operator = "APPEND" ->
                    Returned(aqlCode("CONCAT(") \o lhs \o aqlCode(", ") \o rhs
                                 \o aqlCode(")"), r.H)
               [] node.operator = "PREPEND" ->
                    Returned(aqlCode("CONCAT(") \o rhs \o aqlCode(", ") \o lhs
                                 \o aqlCode(")"), r.H)
               [] OTHER -> Thrown("Unsupported binary operator", "undefined", r.H)

registerUnaryOperationQueryNode(node, context, H) ==
    LET value == processNode(node.valueNode, context, H)
    IN  CASE node.operator = "NOT" ->
                IF ~value.ok THEN value
                ELSE Returned(aqlCode("!(") \o value.frag \o aqlCode(")"), value.H)
          [] node.operator = "JSON_STRINGIFY" ->
                IF ~value.ok THEN value
                ELSE Returned(aqlCode("JSON_STRINGIFY(") \o value.frag \o aqlCode(")"),
                              value.H)
          [] OTHER -> Thrown("Unsupported unary operator", node.operator, H)

registerConditionalQueryNode(node, context, H) ==
    LET cond == processNode(node.condition, context, H)
        expr1 == processNode(node.expr1, context, cond.H)
        expr2 == processNode(node.expr2, context, expr1.H)
    IN  IF ~cond.ok THEN cond
        ELSE IF ~expr1.ok THEN expr1
        ELSE IF ~expr2.ok THEN expr2
        ELSE Returned(aqlCode("(") \o cond.frag \o aqlCode(" ? ") \o expr1.frag
                          \o aqlCode(" : ") \o expr2.frag \o aqlCode(")"), expr2.H)

registerTypeCheckQueryNode(node, context, H) ==
    LET value == processNode(node.valueNode, context, H)
        is(fn) == aqlCode(fn) \o value.frag \o aqlCode(")")
    IN  IF ~value.ok THEN value
        ELSE CASE node.basicType = "SCALAR" ->
                    Returned(aqlCode("(") \o is("IS_BOOL(") \o aqlCode(" || ")
                                 \o is("IS_NUMBER(") \o aqlCode(" || ") \o is("IS_STRING(")
                                 \o aqlCode(")"), value.H)
               [] node.basicType = "LIST" -> Returned(is("IS_LIST("), value.H)
               [] node.basicType = "OBJECT" -> Returned(is("IS_OBJECT("), value.H)
               [] node.basicType = "NULL" -> Returned(is("IS_NULL("), value.H)

registerSafeListQueryNode(node, context, H) ==
    LET reducedNode == ConditionalQueryNode(TypeCheckQueryNode(node.sourceNode, "LIST"),
                                            node.sourceNode, ListQueryNode(<<>>))
    IN  processNode(reducedNode, context, H)

IDENTITY_ANALYZER == << "i", "d", "e", "n", "t", "i", "t", "y" >>

\* the analyzer the search view registers for a full-text field of a language
getAnalyzerFromFlexSearchLanguage(flexSearchLanguage) ==
    IF Len(flexSearchLanguage) > 0
    THEN << "t", "e", "x", "t", "_" >> \o toLowerCase(flexSearchLanguage)
    ELSE << "i", "d", "e", "n", "t", "i", "t", "y" >>

\* quickSearchLanguage is <<>> when undefined
registerOperatorWithLanguageQueryNode(node, context, H) ==
    LET l == processNode(node.lhs, context, H)
        r == processNode(node.rhs, context, l.H)
        lhs == l.frag
        rhs == r.frag
        analyzer ==
            aqlValue(StringValue(
                IF Len(node.quickSearchLanguage) > 0
                THEN << "t", "e", "x", "t", "_" >> \o toLowerCase(node.quickSearchLanguage)
                ELSE IDENTITY_ANALYZER))
    IN  IF ~l.ok THEN l
        ELSE IF ~r.ok THEN r
        ELSE CASE node.operator = "QUICKSEARCH_STARTS_WITH" ->
                    Returned(aqlCode("STARTS_WITH(") \o lhs \o aqlCode(",") \o rhs
                                 \o aqlCode(")"), r.H)
               [] node.operator = "QUICKSEARCH_CONTAINS_ANY_WORD" ->
                    Returned(aqlCode("ANALYZER( ") \o lhs \o aqlCode(" IN TOKENS(") \o rhs
                                 \o aqlCode(", ") \o analyzer \o aqlCode("),") \o analyzer
                                 \o aqlCode(")"), r.H)
               [] node.operator = "QUICKSEARCH_CONTAINS_PREFIX" ->
                    Returned(aqlCode("ANALYZER( STARTS_WITH( ") \o lhs \o aqlCode(", TOKENS(")
                                 \o rhs \o aqlCode(")[0]), ") \o analyzer \o aqlCode("))"),
                             r.H)
               [] node.operator = "QUICKSEARCH_CONTAINS_PHRASE" ->
                    Returned(aqlCode("ANALYZER( PHRASE( ") \o lhs \o aqlCode(", ") \o rhs
                                 \o aqlCode("), ") \o analyzer \o aqlCode(")"), r.H)
               [] OTHER -> Thrown("Unsupported ternary operator", node.operator, r.H)

\* the do-while loop that collects the fields of conditionNode.lhs back to front;
\* ok is FALSE when a node of the chain is no FieldQueryNode
RECURSIVE collectFields(_, _)
collectFields(currentFieldNode, itemVariable) ==
    IF currentFieldNode.type /= "Field" THEN [ok |-> FALSE, fields |-> <<>>]
    ELSE IF currentFieldNode.objectNode.type = "Variable"
            /\ currentFieldNode.objectNode.id = itemVariable.id
    THEN [ok |-> TRUE, fields |-> << currentFieldNode.field >>]
    ELSE LET rest == collectFields(currentFieldNode.objectNode, itemVariable)
         IN  [ok |-> rest.ok, fields |-> rest.fields \o << currentFieldNode.field >>]

\* applies is FALSE where the function returns undefined
getQuantifierFilterUsingArrayExpansion(quantifier, conditionNode, list0, itemVariable, context, H) ==
    LET undefined == [applies |-> FALSE, r |-> Returned(<<>>, H)]
        listNode == IF list0.type = "SafeList" THEN list0.sourceNode ELSE list0
        operatorWorks ==
            CASE conditionNode.operator = "EQUAL" -> TRUE
              [] conditionNode.operator = "LIKE" ->
                    /\ isLiteralString(conditionNode.rhs)
                    /\ analyzeLikePatternPrefix(conditionNode.rhs.value.s).isLiteralPattern
                    /\ isStringCaseInsensitive(conditionNode.rhs.value.s)
              [] OTHER -> FALSE
        chain == collectFields(conditionNode.lhs, itemVariable)
        valueFrag == processNode(conditionNode.rhs, context, H)
        fieldAccessFrag ==
            aqlConcat([i \in 1..Len(chain.fields) |-> getFieldAccessFragment(chain.fields[i])])
        list == processNode(listNode, context, valueFrag.H)
    IN  IF quantifier /= "some" THEN undefined
        ELSE IF listNode.type /= "Field" THEN undefined
        ELSE IF conditionNode.type /= "BinaryOperation" THEN undefined
        ELSE IF ~operatorWorks THEN undefined
        ELSE IF ~chain.ok THEN undefined
        ELSE IF ~valueFrag.ok THEN [applies |-> TRUE, r |-> valueFrag]
        ELSE IF ~list.ok THEN [applies |-> TRUE, r |-> list]
        ELSE [applies |-> TRUE,
              r |-> Returned(valueFrag.frag \o aqlCode(" IN ") \o list.frag \o aqlCode("[*]")
                                 \o fieldAccessFrag, list.H)]

\* a slip: the condition of 'every' is counted as it is
registerQuantifierFilterNode_EveryNotNegated(node, context, H) ==
    LET conditionNode == simplifyBooleans(node.conditionNode)
        fastFragment == getQuantifierFilterUsingArrayExpansion(node.quantifier, conditionNode,
                            node.listNode, node.itemVariable, context, H)
        quantifier == IF node.quantifier = "every" THEN "none" ELSE node.quantifier
        filteredListNode ==
            TransformListQueryNode(node.listNode, node.itemVariable, conditionNode, <<>>,
                                   0, <<>>, node.itemVariable)
        finalNode ==
            BinaryOperationQueryNode(CountQueryNode(filteredListNode),
                IF quantifier = "none" THEN "EQUAL" ELSE "GREATER_THAN",
                LiteralQueryNode(NumberValue(0)))
    IN  IF fastFragment.applies THEN fastFragment.r
        ELSE processNode(finalNode, context, H)

registerQuantifierFilterNode(node, context, H) ==
    LET conditionNode == simplifyBooleans(node.conditionNode)
        fastFragment == getQuantifierFilterUsingArrayExpansion(node.quantifier, conditionNode,
                            node.listNode, node.itemVariable, context, H)
        quantifier == IF node.quantifier = "every" THEN "none" ELSE node.quantifier
        countedCondition == IF node.quantifier = "every" THEN not(conditionNode)
                            ELSE conditionNode
        filteredListNode ==
            TransformListQueryNode(node.listNode, node.itemVariable, countedCondition, <<>>,
                                   0, <<>>, node.itemVariable)
        finalNode ==
            BinaryOperationQueryNode(CountQueryNode(filteredListNode),
                IF quantifier = "none" THEN "EQUAL" ELSE "GREATER_THAN",
                LiteralQueryNode(NumberValue(0)))
    IN  IF fastFragment.applies THEN fastFragment.r
        ELSE processNode(finalNode, context, H)

registerEntitiesQueryNode(node, context, H) ==
    getCollectionForType(node.rootEntityType, "READ", context, H)

registerFollowEdgeQueryNode(node, context, H) ==
    LET tmpVar == NewAQLVariable("node", FALSE, H)
        tmp == aqlVariableToken(tmpVar.aqlVar)
        follow(edge) ==
            IF ~edge.ok THEN edge
            ELSE Returned(parenthesizeList(
                     << aqlCode("FOR ") \o tmp,
                        aqlCode("IN ") \o edge.frag,
                        aqlCode("FILTER ") \o tmp \o aqlCode(" != null"),
                        aqlCode("RETURN ") \o tmp >>), edge.H)
    IN  follow(getSimpleFollowEdgeFragment(node, context, tmpVar.H))

registerCreateEntityQueryNode(node, context, H) ==
    LET object == processNode(node.objectNode, context, H)
        collection == getCollectionForType(node.rootEntityType, "WRITE", context, object.H)
    IN  IF ~object.ok THEN object
        ELSE Returned(parenthesizeObject(
                 << aqlCode("INSERT ") \o object.frag \o aqlCode(" IN ") \o collection.frag,
                    aqlCode("RETURN NEW._key") >>), collection.H)

registerUpdateEntitiesQueryNode(node, context, H) ==
    LET update(newContext) ==
            LET entityVar == getVariable(newContext.ctx, node.currentEntityVariable,
                                         newContext.H)
                list == processNode(node.listNode, context, newContext.H)
                updates == processNode(ObjectQueryNode(node.updates), newContext.ctx, list.H)
                collection == getCollectionForType(node.rootEntityType, "WRITE", context,
                                                   updates.H)
            IN  IF ~newContext.ok THEN Rethrow(newContext)
                ELSE IF ~list.ok THEN list
                ELSE IF ~updates.ok THEN updates
                ELSE Returned(parenthesizeList(
                         << aqlCode("FOR ") \o entityVar.frag,
                            aqlCode("IN ") \o list.frag,
                            aqlCode("UPDATE ") \o entityVar.frag,
                            aqlCode("WITH ") \o updates.frag,
                            aqlCode("IN ") \o collection.frag,
                            aqlCode("OPTIONS { mergeObjects: false }"),
                            aqlCode("RETURN NEW._key") >>), collection.H)
    IN  update(introduceVariable(context, node.currentEntityVariable, H))

registerDeleteEntitiesQueryNode(node, context, H) ==
    \* the label is decapitalize(node.rootEntityType.name)
    LET entityVar == NewAQLVariable(node.rootEntityType, FALSE, H)
        var == aqlVariableToken(entityVar.aqlVar)
        list == processNode(node.listNode, context, entityVar.H)
        collection == getCollectionForType(node.rootEntityType, "WRITE", context, list.H)
    IN  IF ~list.ok THEN list
        ELSE Returned(parenthesizeList(
                 << aqlCode("FOR ") \o var,
                    aqlCode("IN ") \o list.frag,
                    aqlCode("REMOVE ") \o var,
                    aqlCode("IN ") \o collection.frag,
                    aqlCode("RETURN OLD") >>), collection.H)

getFullIDFromKeyFragment(keyFragment, rootEntityType) ==
    aqlCode("CONCAT(")
        \o aqlValue(StringValue(getCollectionNameForRootEntity(rootEntityType) \o << "/" >>))
        \o aqlCode(", ") \o keyFragment \o aqlCode(")")

getFullIDFromKeyNode(node, rootEntityType, context, H) ==
    IF isLiteralString(node)
    THEN Returned(aqlValue(StringValue(getCollectionNameForRootEntity(rootEntityType)
                                           \o << "/" >> \o node.value.s)), H)
    ELSE IF node.type = "RootEntityID"
    THEN LET object == processNode(node.objectNode, context, H)
         IN  IF ~object.ok THEN object
             ELSE Returned(object.frag \o aqlCode("._id"), object.H)
    ELSE LET key == processNode(node, context, H)
         IN  IF ~key.ok THEN key
             ELSE Returned(getFullIDFromKeyFragment(key.frag, rootEntityType), key.H)

\* idsNode.itemNodes.map(idNode => getFullIDFromKeyNode(idNode, rootEntityType, context))
RECURSIVE getFullIDsFromKeyNodes(_, _, _, _)
getFullIDsFromKeyNodes(itemNodes, rootEntityType, context, H) ==
    IF Len(itemNodes) = 0
    THEN [ok |-> TRUE, err |-> "", arg |-> "", frags |-> <<>>, H |-> H]
    ELSE LET map(first) ==
                 IF ~first.ok
                 THEN [ok |-> FALSE, err |-> first.err, arg |-> first.arg, frags |-> <<>>,
                       H |-> first.H]
                 ELSE LET rest == getFullIDsFromKeyNodes(Tail(itemNodes), rootEntityType,
                                                         context, first.H)
                      IN  IF ~rest.ok THEN rest
                          ELSE [rest EXCEPT !.frags = << first.frag >> \o @]
         IN  map(getFullIDFromKeyNode(itemNodes[1], rootEntityType, context, H))

getFullIDsFromKeysNode(idsNode, rootEntityType, context, H) ==
    IF idsNode.type = "List"
    THEN LET list(idFragments) ==
                 IF ~idFragments.ok THEN Rethrow(idFragments)
                 ELSE Returned(aqlCode("[") \o aqlJoin(idFragments.frags, aqlCode(", "))
                                   \o aqlCode("]"), idFragments.H)
         IN  list(getFullIDsFromKeyNodes(idsNode.itemNodes, rootEntityType, context, H))
    ELSE IF idsNode.type = "Literal" /\ idsNode.value.ty = "list"
    THEN LET collName == getCollectionNameForRootEntity(rootEntityType)
         IN  Returned(aqlValue(StringListValue(
                 [i \in 1..Len(idsNode.value.l) |->
                     collName \o << "/" >> \o idsNode.value.l[i]])), H)
    ELSE LET idVar == NewAQLVariable("id", FALSE, H)
             ids == processNode(idsNode, context, idVar.H)
         IN  IF ~ids.ok THEN ids
             ELSE Returned(aqlCode("(FOR ") \o aqlVariableToken(idVar.aqlVar)
                      \o aqlCode(" IN ") \o ids.frag \o aqlCode(" RETURN ")
                      \o getFullIDFromKeyFragment(aqlVariableToken(idVar.aqlVar),
                                                  rootEntityType)
                      \o aqlCode(")"), ids.H)

\* fromIDNode / toIDNode are NoNode when missing
formatEdge(relation, edge, context, H) ==
    LET hasFrom == edge.fromIDNode.type /= "undefined"
        hasTo == edge.toIDNode.type /= "undefined"
        format(from, to) ==
            IF ~to.ok THEN to
            ELSE Returned(aqlCode("{")
                     \o aqlJoin((IF hasFrom THEN << aqlCode("_from: ") \o from.frag >>
                                 ELSE <<>>)
                                    \o (IF hasTo THEN << aqlCode("_to: ") \o to.frag >>
                                        ELSE <<>>),
                                aqlCode(", "))
                     \o aqlCode("}"), to.H)
        target(from) ==
            IF ~from.ok THEN from
            ELSE format(from,
                        IF hasTo
                        THEN getFullIDFromKeyNode(edge.toIDNode, relationToType(relation),
                                                  context, from.H)
                        ELSE Returned(<<>>, from.H))
    IN  target(IF hasFrom
               THEN getFullIDFromKeyNode(edge.fromIDNode, relationFromType(relation),
                                         context, H)
               ELSE Returned(<<>>, H))

\* node.edges.map(edge => formatEdge(node.relation, edge, context))
RECURSIVE formatEdges(_, _, _, _)
formatEdges(relation, edges, context, H) ==
    IF Len(edges) = 0
    THEN [ok |-> TRUE, err |-> "", arg |-> "", frags |-> <<>>, H |-> H]
    ELSE LET map(first) ==
                 IF ~first.ok
                 THEN [ok |-> FALSE, err |-> first.err, arg |-> first.arg, frags |-> <<>>,
                       H |-> first.H]
                 ELSE LET rest == formatEdges(relation, Tail(edges), context, first.H)
                      IN  IF ~rest.ok THEN rest
                          ELSE [rest EXCEPT !.frags = << first.frag >> \o @]
         IN  map(formatEdge(relation, edges[1], context, H))

registerAddEdgesQueryNode(node, context, H) ==
    LET edgeVar == NewAQLVariable("edge", FALSE, H)
        edge == aqlVariableToken(edgeVar.aqlVar)
        upsert(edges, collection) ==
            Returned(parenthesizeList(
                << aqlCode("FOR ") \o edge,
                   aqlCode("IN [ ") \o aqlJoin(edges.frags, aqlCode(", ")) \o aqlCode(" ]"),
                   aqlCode("UPSERT { _from: ") \o edge \o aqlCode("._from, _to: ") \o edge
                       \o aqlCode("._to }"),
                   aqlCode("INSERT ") \o edge,
                   aqlCode("UPDATE {}"),
                   aqlCode("IN ") \o collection.frag >>), collection.H)
        format(edges) ==
            IF ~edges.ok THEN Rethrow(edges)
            ELSE upsert(edges,
                        getCollectionForRelation(node.relation, "WRITE", context, edges.H))
    IN  format(formatEdges(node.relation, node.edges, context, edgeVar.H))

registerRemoveEdgesQueryNode(node, context, H) ==
    LET edgeVar == NewAQLVariable("edge", FALSE, H)
        fromVar == NewAQLVariable("from", FALSE, edgeVar.H)
        toVar == NewAQLVariable("to", FALSE, fromVar.H)
        edge == aqlVariableToken(edgeVar.aqlVar)
        from == aqlVariableToken(fromVar.aqlVar)
        to == aqlVariableToken(toVar.aqlVar)
        hasFrom == node.edgeFilter.fromIDsNode.type /= "undefined"
        hasTo == node.edgeFilter.toIDsNode.type /= "undefined"
        edgeFilter ==
            IF hasFrom /\ hasTo
            THEN aqlCode("FILTER ") \o edge \o aqlCode("._from == ") \o from \o aqlCode(" && ")
                     \o edge \o aqlCode("._to == ") \o to
            ELSE IF hasFrom
            THEN aqlCode("FILTER ") \o edge \o aqlCode("._from == ") \o from
            ELSE IF hasTo
            THEN aqlCode("FILTER ") \o edge \o aqlCode("._to == ") \o to
            ELSE <<>>
        remove(fromIDs, toIDs, readCollection, writeCollection) ==
            Returned(parenthesizeList(
                << IF hasFrom THEN aqlCode("FOR ") \o from \o aqlCode(" IN ") \o fromIDs.frag
                   ELSE <<>>,
                   IF hasTo THEN aqlCode("FOR ") \o to \o aqlCode(" IN ") \o toIDs.frag
                   ELSE <<>>,
                   aqlCode("FOR ") \o edge \o aqlCode(" IN ") \o readCollection.frag,
                   edgeFilter,
                   aqlCode("REMOVE ") \o edge \o aqlCode(" IN ") \o writeCollection.frag >>),
                writeCollection.H)
        write(fromIDs, toIDs, readCollection) ==
            remove(fromIDs, toIDs, readCollection,
                   getCollectionForRelation(node.relation, "WRITE", context,
                                            readCollection.H))
        read(fromIDs, toIDs) ==
            IF ~toIDs.ok THEN toIDs
            ELSE write(fromIDs, toIDs,
                       getCollectionForRelation(node.relation, "READ", context, toIDs.H))
        targets(fromIDs) ==
            IF ~fromIDs.ok THEN fromIDs
            ELSE read(fromIDs,
                      IF hasTo
                      THEN getFullIDsFromKeysNode(node.edgeFilter.toIDsNode,
                               relationToType(node.relation), context, fromIDs.H)
                      ELSE Returned(<<>>, fromIDs.H))
    IN  targets(IF hasFrom
                THEN getFullIDsFromKeysNode(node.edgeFilter.fromIDsNode,
                         relationFromType(node.relation), context, toVar.H)
                ELSE Returned(<<>>, toVar.H))

registerSetEdgeQueryNode(node, context, H) ==
    LET edgeVar == NewAQLVariable("edge", FALSE, H)
        upsert(existing, inserted, updated, collection) ==
            Returned(parenthesizeList(
                << aqlCode("UPSERT ") \o existing.frag,
                   aqlCode("INSERT ") \o inserted.frag,
                   aqlCode("UPDATE ") \o updated.frag,
                   aqlCode("IN ") \o collection.frag >>), collection.H)
        write(existing, inserted, updated) ==
            IF ~updated.ok THEN updated
            ELSE upsert(existing, inserted, updated,
                        getCollectionForRelation(node.relation, "WRITE", context,
                                                 updated.H))
        update(existing, inserted) ==
            IF ~inserted.ok THEN inserted
            ELSE write(existing, inserted,
                       formatEdge(node.relation, node.newEdge, context, inserted.H))
        insert(existing) ==
            IF ~existing.ok THEN existing
            ELSE update(existing,
                        formatEdge(node.relation, node.newEdge, context, existing.H))
    IN  insert(formatEdge(node.relation, node.existingEdge, context, edgeVar.H))

\* the dispatch over the registered processors
processNode(node, context, H) ==
    CASE node.type = "Literal" -> registerLiteralQueryNode(node, context, H)
      [] node.type = "Null" -> registerNullQueryNode(node, context, H)
      [] node.type = "RuntimeError" -> registerRuntimeErrorQueryNode(node, context, H)
      [] node.type = "ConstBool" -> registerConstBoolQueryNode(node, context, H)
      [] node.type = "ConstInt" -> registerConstIntQueryNode(node, context, H)
      [] node.type = "Object" -> registerObjectQueryNode(node, context, H)
      [] node.type = "List" -> registerListQueryNode(node, context, H)
      [] node.type = "ConcatLists" -> registerConcatListsQueryNode(node, context, H)
      [] node.type = "Variable" -> registerVariableQueryNode(node, context, H)
      [] node.type = "VariableAssignment" ->
            registerVariableAssignmentQueryNode(node, context, H)
      [] node.type = "WithPreExecution" -> registerWithPreExecutionQueryNode(node, context, H)
      [] node.type = "EntityFromId" -> registerEntityFromIdQueryNode(node, context, H)
      [] node.type = "Field" -> registerFieldQueryNode(node, context, H)
      [] node.type = "RootEntityID" -> registerRootEntityIDQueryNode(node, context, H)
      [] node.type = "QuickSearch" -> registerQuickSearchQueryNode(node, context, H)
      [] node.type = "TransformList" -> registerTransformListQueryNode(node, context, H)
      [] node.type = "Count" -> registerCountQueryNode(node, context, H)
      [] node.type = "MergeObjects" -> registerMergeObjectsQueryNode(node, context, H)
      [] node.type = "FirstOfList" -> registerFirstOfListQueryNode(node, context, H)
      [] node.type = "BinaryOperation" -> registerBinaryOperationQueryNode(node, context, H)
      [] node.type = "OperatorWithLanguage" ->
            registerOperatorWithLanguageQueryNode(node, context, H)
      [] node.type = "UnaryOperation" -> registerUnaryOperationQueryNode(node, context, H)
      [] node.type = "Conditional" -> registerConditionalQueryNode(node, context, H)
      [] node.type = "TypeCheck" -> registerTypeCheckQueryNode(node, context, H)
      [] node.type = "SafeList" -> registerSafeListQueryNode(node, context, H)
      [] node.type = "QuantifierFilter" -> registerQuantifierFilterNode(node, context, H)
      [] node.type = "Entities" -> registerEntitiesQueryNode(node, context, H)
      [] node.type = "FollowEdge" -> registerFollowEdgeQueryNode(node, context, H)
      [] node.type = "CreateEntity" -> registerCreateEntityQueryNode(node, context, H)
      [] node.type = "UpdateEntities" -> registerUpdateEntitiesQueryNode(node, context, H)
      [] node.type = "DeleteEntities" -> registerDeleteEntitiesQueryNode(node, context, H)
      [] node.type = "AddEdges" -> registerAddEdgesQueryNode(node, context, H)
      [] node.type = "RemoveEdges" -> registerRemoveEdgesQueryNode(node, context, H)
      [] node.type = "SetEdge" -> registerSetEdgeQueryNode(node, context, H)
      [] OTHER -> Thrown("Unsupported query type", node.type, H)

\* getAQLQuery on the heap of a process that has allocated objects before
getAQLQueryOn(node, H) ==
    LET resultVar == NewAQLVariable("result", TRUE, H)
        context == NewQueryContext(resultVar.H)
    IN  createAQLCompoundQuery(node, resultVar.aqlVar, "none", context.ctx, context.H)

getAQLQuery(node, optimizationConfig) == getAQLQueryOn(node, NewHeap(optimizationConfig))

(***************************************************************************)
(* The compiler as a state machine: a caller hands a query tree and the    *)
(* global optimization config to getAQLQuery                               *)
(***************************************************************************)
\* node, aqlConfig, pc, result: a compilation.  heap, contexts, last: a caller of
\* the QueryContext operations, the contexts it holds and its last call.
\* compiled: the trees the process has compiled so far.  input, messages: the
\* localizations of a model and the messages of its validation.  promises: the
\* WeakMap of each wrapped root type; invocations, outcomes: the calls of
\* operationResolver and the state of the promises they returned; resolutions:
\* the field resolutions the executor started.  views, definitions,
\* configuration: the existing search views of the database, the definitions the
\* model requires and the search configuration; migrations: the planned operations.
\* seenArray, returned: the alreadySeen array that isExistingAndAdd fills and what its calls
\* returned.
VARIABLES node, aqlConfig, pc, result, heap, contexts, last, compiled, input, messages, promises, invocations, outcomes, resolutions, views, definitions, configuration, migrations, seenArray, returned

vars ==
    << node, aqlConfig, pc, result, heap, contexts, last, compiled, input, messages, promises, invocations, outcomes, resolutions, views, definitions, configuration, migrations, seenArray, returned >>

\* names of fields (sequences of characters); the last one is no safe identifier
items == << "i", "t", "e", "m", "s" >>
itemNumber == << "n", "o" >>
unsafeName == << "a", "-", "b" >>

OptimizationConfigs ==
    { [enableExperimentalProjectionIndirection |-> FALSE,
       experimentalProjectionIndirectionTypeNames |-> <<>>],
      [enableExperimentalProjectionIndirection |-> TRUE,
       experimentalProjectionIndirectionTypeNames |-> <<>>],
      [enableExperimentalProjectionIndirection |-> TRUE,
       experimentalProjectionIndirectionTypeNames |-> << {"Delivery"} >>] }

\* the result variable r_i of the i-th pre-execution entry, and a literal that tells
\* the entries apart
ResultVariable(i) == VariableQueryNode(10 + i, "r")
EntryLiteral(i) == LiteralQueryNode(NumberValue(i))

\* the entries i..(i + n - 1): each with or without r_i, its query the literal i
\* or a reference to some r_j
RECURSIVE PreExecEntries(_, _, _)
PreExecEntries(i, n, refs) ==
    IF n = 0 THEN { <<>> }
    ELSE { << PreExecQueryParms(q, rv) >> \o rest :
              q \in {EntryLiteral(i)} \cup {ResultVariable(j) : j \in refs},
              rv \in {NoNode, ResultVariable(i)},
              rest \in PreExecEntries(i + 1, n - 1, refs) }

PreExecInputs ==
    UNION { { WithPreExecutionQueryNode(entries, resultNode) :
                entries \in PreExecEntries(1, n, 1..n),
                resultNode \in {EntryLiteral(0)} \cup {ResultVariable(j) : j \in 1..n} } :
            n \in 1..MaxEntries }

\* a variable v of the tree in whose scope a sub-tree is lowered: the item of a
\* TransformList (inner node, filter), an assigned variable (lifted to a LET line of
\* the compound query, or lowered in place), the current entity of an UpdateEntities,
\* the item of a QuickSearch
ScopeKinds ==
    {"TransformList.inner", "TransformList.filter", "VariableAssignment.lifted",
     "VariableAssignment.inPlace", "UpdateEntities", "QuickSearch"}

InScopeOf(kind, v, inner) ==
    CASE kind = "TransformList.inner" ->
            TransformListQueryNode(EntitiesQueryNode("Delivery"), v, ConstBoolQueryNode(TRUE),
                                   <<>>, 0, <<>>, inner)
      [] kind = "TransformList.filter" ->
            TransformListQueryNode(EntitiesQueryNode("Delivery"), v, inner, <<>>, 0, <<>>, v)
      [] kind = "VariableAssignment.lifted" ->
            VariableAssignmentQueryNode(v, EntryLiteral(0), inner)
      [] kind = "VariableAssignment.inPlace" ->
            ListQueryNode(<< VariableAssignmentQueryNode(v, EntryLiteral(0), inner) >>)
      [] kind = "UpdateEntities" ->
            UpdateEntitiesQueryNode("Delivery", EntitiesQueryNode("Delivery"), v,
                                    << PropertySpecification(items, inner) >>)
      [] kind = "QuickSearch" -> QuickSearchQueryNode("Delivery", v, inner)

\* two variables of the tree with the same label, and a third one
TransientVariable == VariableQueryNode(1, "t")
TwinVariable == VariableQueryNode(2, "t")
InnerVariable == VariableQueryNode(3, "u")

\* pre-execution queries registered in the scope of v: with and without a reference
\* to v, with and without transient variables of their own
ScopedQueries(v) ==
    { v,
      FieldQueryNode(v, items, <<>>),
      CreateEntityQueryNode("Delivery",
          ObjectQueryNode(<< PropertySpecification(items, v) >>)),
      EntryLiteral(1),
      TransformListQueryNode(EntitiesQueryNode("HandlingUnit"), InnerVariable,
                             ConstBoolQueryNode(TRUE), <<>>, 0, <<>>, InnerVariable) }

ScopedResultVariables == {NoNode, ResultVariable(1)}
ScopedResultNodes(v) == {v, ResultVariable(1), EntryLiteral(0)}

ScopedPreExec(q, rv, resultNode) ==
    WithPreExecutionQueryNode(<< PreExecQueryParms(q, rv) >>, resultNode)

ScopedPreExecInputs ==
    { InScopeOf(kind, TransientVariable, ScopedPreExec(q, rv, resultNode)) :
        kind \in ScopeKinds, q \in ScopedQueries(TransientVariable),
        rv \in ScopedResultVariables, resultNode \in ScopedResultNodes(TransientVariable) }

\* two WithPreExecution nodes; the first registers p = (literal 1, r1), the second
\* q = (q2, r2).  They are siblings (items of a List, properties of an Object) or the
\* second lies in the result node of the first (directly, or below a TransformList)
SiblingKinds == {"List", "Object"}
NestingKinds == {"direct", "TransformList"}
LaterQueries == {EntryLiteral(2), ResultVariable(1)}
LaterResultNodes == {EntryLiteral(0), ResultVariable(1), ResultVariable(2)}

FirstPreExec(resultNode) ==
    WithPreExecutionQueryNode(<< PreExecQueryParms(EntryLiteral(1), ResultVariable(1)) >>,
                              resultNode)
SecondPreExec(q2, resultNode) ==
    WithPreExecutionQueryNode(<< PreExecQueryParms(q2, ResultVariable(2)) >>, resultNode)

SiblingPreExec(kind, q2, resultNode) ==
    CASE kind = "List" ->
            ListQueryNode(<< FirstPreExec(ResultVariable(1)), SecondPreExec(q2, resultNode) >>)
      [] kind = "Object" ->
            ObjectQueryNode(
                << PropertySpecification(items, FirstPreExec(ResultVariable(1))),
                   PropertySpecification(itemNumber, SecondPreExec(q2, resultNode)) >>)

NestedPreExec(kind, q2, resultNode) ==
    CASE kind = "direct" -> FirstPreExec(SecondPreExec(q2, resultNode))
      [] kind = "TransformList" ->
            FirstPreExec(TransformListQueryNode(EntitiesQueryNode("Delivery"),
                TransientVariable, ConstBoolQueryNode(TRUE), <<>>, 0, <<>>,
                SecondPreExec(q2, resultNode)))

\* p is registered while the first pre-execution query of the node is compiled; the
\* second entry of the node is q = (q3, r3)
PreExecInsideQuery(q3, resultNode) ==
    WithPreExecutionQueryNode(
        << PreExecQueryParms(FirstPreExec(ResultVariable(1)), ResultVariable(2)),
           PreExecQueryParms(q3, ResultVariable(3)) >>, resultNode)

TwoPreExecInputs ==
    { SiblingPreExec(kind, q2, resultNode) :
        kind \in SiblingKinds, q2 \in LaterQueries, resultNode \in LaterResultNodes }
    \cup { NestedPreExec(kind, q2, resultNode) :
             kind \in NestingKinds, q2 \in LaterQueries, resultNode \in LaterResultNodes }
    \cup { PreExecInsideQuery(q3, resultNode) :
             q3 \in LaterQueries \cup {ResultVariable(2)},
             resultNode \in LaterResultNodes \cup {ResultVariable(3)} }

\* nodes that access a collection
AccessNodes ==
    UNION { { EntitiesQueryNode(T),
              EntityFromIdQueryNode(T, EntryLiteral(1)),
              CreateEntityQueryNode(T, ObjectQueryNode(<<>>)),
              UpdateEntitiesQueryNode(T, ListQueryNode(<<>>), TransientVariable, <<>>),
              DeleteEntitiesQueryNode(T, ListQueryNode(<<>>)),
              DeleteEntitiesQueryNode(T, EntitiesQueryNode(T)) } : T \in RootEntityTypes }
    \cup UNION { { AddEdgesQueryNode(R, << EdgeIdentifier(EntryLiteral(1), EntryLiteral(2)) >>),
                   RemoveEdgesQueryNode(R, EdgeFilter(ListQueryNode(<< EntryLiteral(1) >>),
                                                      NoNode)),
                   SetEdgeQueryNode(R, EdgeIdentifier(EntryLiteral(1), NoNode),
                                    EdgeIdentifier(EntryLiteral(1), EntryLiteral(2))),
                   FollowEdgeQueryNode(R, TRUE,
                       EntityFromIdQueryNode(relationFromType(R), EntryLiteral(1))) } :
                 R \in Relations }

\* an accessing node as the whole tree, as a pre-execution query next to a main
\* query, and as a pre-execution query of a pre-execution query
AccessInputs ==
    AccessNodes
    \cup { WithPreExecutionQueryNode(<< PreExecQueryParms(x, ResultVariable(1)) >>, y) :
             x \in AccessNodes, y \in AccessNodes \cup {ResultVariable(1)} }
    \cup { WithPreExecutionQueryNode(
               << PreExecQueryParms(
                      WithPreExecutionQueryNode(
                          << PreExecQueryParms(x, ResultVariable(1)) >>, ResultVariable(1)),
                      ResultVariable(2)) >>, y) :
             x \in AccessNodes, y \in AccessNodes \cup {ResultVariable(2)} }

\* the scope of a variable a around the scope of a variable b; the inner list or
\* value refers to a, the innermost node use refers to a, b or both
TwoScopeKinds == {"TransformList", "VariableAssignment"}

InTwoScopes(kind, a, b, use) ==
    CASE kind = "TransformList" ->
            InScopeOf("TransformList.inner", a,
                TransformListQueryNode(FieldQueryNode(a, items, <<>>), b,
                                       ConstBoolQueryNode(TRUE), <<>>, 0, <<>>, use))
      [] kind = "VariableAssignment" ->
            InScopeOf("TransformList.inner", a,
                ListQueryNode(<< VariableAssignmentQueryNode(
                                     b, FieldQueryNode(a, items, <<>>), use) >>))

UsesOf(a, b) ==
    { a, b,
      ObjectQueryNode(<< PropertySpecification(items, a),
                         PropertySpecification(itemNumber, b) >>) }

TwoScopeInputs ==
    { InTwoScopes(kind, TransientVariable, b, use) :
        kind \in TwoScopeKinds,
        b \in {TransientVariable, TwinVariable, InnerVariable},
        use \in UNION { UsesOf(TransientVariable, b2) :
                          b2 \in {TwinVariable, InnerVariable} } }

\* TransformList nodes with every skip in 0..MaxSkip and every maxCount that is
\* unset or in 0..MaxCount, over different lists, filters, orders and inner nodes
LimitInputs ==
    { TransformListQueryNode(listNode, TransientVariable, filterNode, orderBy, skip,
                             maxCount, innerNode) :
        listNode \in { EntitiesQueryNode("Delivery"),
                       FollowEdgeQueryNode("Delivery_handlingUnits", TRUE,
                           EntityFromIdQueryNode("Delivery", EntryLiteral(1))) },
        filterNode \in { ConstBoolQueryNode(TRUE),
                         BinaryOperationQueryNode(
                             FieldQueryNode(TransientVariable, itemNumber, <<>>),
                             "EQUAL", EntryLiteral(1)) },
        orderBy \in { <<>>,
                      << OrderClause(FieldQueryNode(TransientVariable, itemNumber, <<>>),
                                     "DESCENDING") >> },
        skip \in 0..MaxSkip,
        maxCount \in {<<>>} \cup { << n >> : n \in 0..MaxCount },
        innerNode \in { TransientVariable, FieldQueryNode(TransientVariable, items, <<>>) } }

\* a node x as the whole tree, or as the result node of a WithPreExecution node that
\* binds r1
InContextOf(kind, x) ==
    CASE kind = "root" -> x
      [] kind = "r1" -> FirstPreExec(x)

\* list nodes: Field and Entities, and other kinds
ListsIn(kind) ==
    CASE kind = "root" ->
            { EntitiesQueryNode("Delivery"),
              FieldQueryNode(EntityFromIdQueryNode("Delivery", EntryLiteral(1)), items, <<>>),
              TransformListQueryNode(EntitiesQueryNode("Delivery"), TransientVariable,
                  ConstBoolQueryNode(TRUE), <<>>, 0, <<>>, TransientVariable),
              SafeListQueryNode(
                  FieldQueryNode(EntityFromIdQueryNode("Delivery", EntryLiteral(1)), items,
                                 <<>>)),
              FollowEdgeQueryNode("Delivery_handlingUnits", TRUE,
                  EntityFromIdQueryNode("Delivery", EntryLiteral(1))),
              ListQueryNode(<< EntryLiteral(1), EntryLiteral(2) >>),
              ListQueryNode(<<>>),
              SecondPreExec(EntryLiteral(2), ResultVariable(2)) }
      [] kind = "r1" ->
            { FieldQueryNode(ResultVariable(1), items, <<>>),
              FieldQueryNode(ResultVariable(1), unsafeName, << items >>),
              ResultVariable(1),
              SafeListQueryNode(FieldQueryNode(ResultVariable(1), items, <<>>)),
              TransformListQueryNode(ResultVariable(1), TransientVariable,
                  ConstBoolQueryNode(TRUE), <<>>, 0, <<>>,
                  FieldQueryNode(TransientVariable, itemNumber, <<>>)) }

ContextKinds == {"root", "r1"}

\* the lists as trees of their own, and the Count nodes over them
CountInputs ==
    UNION { { InContextOf(kind, x) :
                x \in ListsIn(kind) \cup { CountQueryNode(l) : l \in ListsIn(kind) } } :
            kind \in ContextKinds }

\* literal strings: LIKE patterns with and without wildcards and letters
StringLiteral(str) == LiteralQueryNode(StringValue(str))

\* QuantifierFilter nodes in the scope of r1, over lists that are Field accesses
\* (plain or wrapped in SafeList) and lists that are not
Quantifiers == {"some", "every", "none"}

QuantifiedLists ==
    { FieldQueryNode(ResultVariable(1), items, <<>>),
      SafeListQueryNode(FieldQueryNode(ResultVariable(1), items, <<>>)),
      SafeListQueryNode(ResultVariable(1)),
      ResultVariable(1),
      EntitiesQueryNode("HandlingUnit") }

\* conditions on the item: comparisons of a field chain, of the item itself, with a
\* literal, with r1 and with another field of the item; LIKE patterns; conditions
\* that simplifyBooleans rewrites
ItemField == FieldQueryNode(TransientVariable, itemNumber, <<>>)

ItemConditions ==
    { BinaryOperationQueryNode(ItemField, "EQUAL", EntryLiteral(1)),
      BinaryOperationQueryNode(ItemField, "EQUAL", ResultVariable(1)),
      BinaryOperationQueryNode(ItemField, "EQUAL",
          FieldQueryNode(TransientVariable, items, <<>>)),
      BinaryOperationQueryNode(ItemField, "GREATER_THAN", EntryLiteral(1)),
      BinaryOperationQueryNode(TransientVariable, "EQUAL", EntryLiteral(1)),
      BinaryOperationQueryNode(FieldQueryNode(ItemField, unsafeName, <<>>), "EQUAL",
          EntryLiteral(1)),
      BinaryOperationQueryNode(FieldQueryNode(TransientVariable, itemNumber, << items >>),
          "EQUAL", EntryLiteral(1)),
      BinaryOperationQueryNode(FieldQueryNode(ResultVariable(1), itemNumber, <<>>), "EQUAL",
          EntryLiteral(1)),
      BinaryOperationQueryNode(ItemField, "LIKE", StringLiteral(<< "1", "2" >>)),
      BinaryOperationQueryNode(ItemField, "LIKE", StringLiteral(<< "a", "b" >>)),
      BinaryOperationQueryNode(ItemField, "LIKE", StringLiteral(<< "1", "%" >>)),
      BinaryOperationQueryNode(ItemField, "LIKE", ResultVariable(1)),
      ConstBoolQueryNode(TRUE),
      not(BinaryOperationQueryNode(ItemField, "EQUAL", EntryLiteral(1))),
      not(not(BinaryOperationQueryNode(ItemField, "EQUAL", EntryLiteral(1)))),
      BinaryOperationQueryNode(ConstBoolQueryNode(TRUE), "AND",
          BinaryOperationQueryNode(ItemField, "EQUAL", EntryLiteral(1))),
      BinaryOperationQueryNode(
          BinaryOperationQueryNode(ItemField, "EQUAL", EntryLiteral(1)), "OR",
          not(ConstBoolQueryNode(TRUE))) }

QuantifierInputs ==
    { InContextOf("r1", QuantifierFilterNode(quantifier, listNode, TransientVariable,
                                              conditionNode)) :
        quantifier \in Quantifiers, listNode \in QuantifiedLists,
        conditionNode \in ItemConditions }

\* the contents of literal strings: patterns with and without the wildcards % and _,
\* with and without characters that have two cases
StringPatterns ==
    { <<>>, << "1", "2" >>, << "a", "b" >>, << "a", "B" >>, << "%" >>, << "1", "%" >>,
      << "a", "%" >>, << "a", "%", "b" >>, << "a", "_" >>, << "_" >>, << "%", "%" >>,
      << "a", "%", "%" >>, << "1", "_", "%" >>, << "%", "a" >> }

\* the operands of a string operation in the scope of r1; the right ones are literal
\* strings, a literal number, a variable and a field
LeftOperands == { ResultVariable(1), FieldQueryNode(ResultVariable(1), itemNumber, <<>>) }

RightOperands ==
    { StringLiteral(p) : p \in StringPatterns }
        \cup { EntryLiteral(1), ResultVariable(1),
               FieldQueryNode(ResultVariable(1), items, <<>>) }

LikeInputs ==
    { InContextOf("r1", BinaryOperationQueryNode(lhs, "LIKE", rhs)) :
        lhs \in LeftOperands, rhs \in RightOperands }

StartsWithInputs ==
    { InContextOf("r1", BinaryOperationQueryNode(lhs, "STARTS_WITH", rhs)) :
        lhs \in LeftOperands, rhs \in RightOperands }

\* strings that are no safe identifiers, the second one without letters
Sentinel == unsafeName
DigitSentinel == << "1", "-", "2" >>

RuntimeErrorQueryNode(message) == [type |-> "RuntimeError", message |-> message]

\* the lowering paths that emit a literal value, an error message, an object key or
\* a field name; each tree holds a sentinel
SentinelNodes(s) ==
    { StringLiteral(s),
      RuntimeErrorQueryNode(s),
      ListQueryNode(<< StringLiteral(s), RuntimeErrorQueryNode(s) >>),
      ObjectQueryNode(<< PropertySpecification(s, EntryLiteral(1)) >>),
      ObjectQueryNode(<< PropertySpecification(items, StringLiteral(s)) >>),
      AddEdgesQueryNode("Delivery_handlingUnits",
          << EdgeIdentifier(StringLiteral(s), EntryLiteral(2)) >>),
      AddEdgesQueryNode("Delivery_handlingUnits",
          << EdgeIdentifier(EntryLiteral(1), StringLiteral(s)) >>),
      RemoveEdgesQueryNode("Delivery_handlingUnits",
          EdgeFilter(ListQueryNode(<< StringLiteral(s) >>), NoNode)),
      RemoveEdgesQueryNode("Delivery_handlingUnits",
          EdgeFilter(NoNode, LiteralQueryNode(StringListValue(<< s >>)))),
      RemoveEdgesQueryNode("Delivery_handlingUnits",
          EdgeFilter(ListQueryNode(<< RootEntityIDQueryNode(StringLiteral(s)) >>), NoNode)),
      SetEdgeQueryNode("Delivery_handlingUnits", EdgeIdentifier(StringLiteral(s), NoNode),
          EdgeIdentifier(StringLiteral(s), EntryLiteral(2))) }
    \cup { InContextOf("r1", x) :
             x \in { BinaryOperationQueryNode(ResultVariable(1), op, StringLiteral(p)) :
                       op \in {"LIKE", "STARTS_WITH", "CONTAINS", "ENDS_WITH", "EQUAL",
                               "APPEND"},
                       p \in {s, s \o << "%" >>, s \o << "%", "1" >>} }
                 \cup { QuantifierFilterNode("some",
                            FieldQueryNode(ResultVariable(1), items, <<>>), TransientVariable,
                            BinaryOperationQueryNode(ItemField, op, StringLiteral(s))) :
                          op \in {"EQUAL", "LIKE"} }
                 \cup { QuantifierFilterNode("some",
                            FieldQueryNode(ResultVariable(1), items, <<>>), TransientVariable,
                            BinaryOperationQueryNode(
                                FieldQueryNode(TransientVariable, s, <<>>),
                                "EQUAL", EntryLiteral(1))),
                        FieldQueryNode(ResultVariable(1), s, <<>>),
                        FieldQueryNode(ResultVariable(1), s, << items >>),
                        FieldQueryNode(ResultVariable(1), items, << s >>) } }

SentinelInputs == SentinelNodes(Sentinel) \cup SentinelNodes(DigitSentinel)

\* Field accesses in the scope of r1: names that are safe identifiers and names that
\* are not (a dash, a leading digit), as the field and as segments of the path
FieldNames == { items, unsafeName, << "_", "a", "1" >>, << "1", "a" >> }

FieldPaths ==
    { <<>>, << itemNumber >>, << items, itemNumber >>, << unsafeName >>,
      << itemNumber, unsafeName >>, << << "1", "a" >> >> }

FieldObjects == { ResultVariable(1), FieldQueryNode(ResultVariable(1), itemNumber, <<>>) }

FieldInputs ==
    { InContextOf("r1", FieldQueryNode(object, field, path)) :
        object \in FieldObjects, field \in FieldNames, path \in FieldPaths }

\* search predicates on the item of a QuickSearch and in the scope of r1, with every
\* operator, with and without a language, in upper and in lower case
SearchOperators ==
    {"QUICKSEARCH_STARTS_WITH", "QUICKSEARCH_CONTAINS_ANY_WORD",
     "QUICKSEARCH_CONTAINS_PREFIX", "QUICKSEARCH_CONTAINS_PHRASE"}

SearchLanguages == { <<>>, << "C", "A" >>, << "c", "a" >> }

SearchPredicate(v, operator, language) ==
    OperatorWithLanguageQueryNode(FieldQueryNode(v, items, <<>>), operator,
                                  StringLiteral(<< "a", "b" >>), language)

SearchInputs ==
    { InContextOf("r1", SearchPredicate(ResultVariable(1), operator, language)) :
        operator \in SearchOperators, language \in SearchLanguages }
    \cup { QuickSearchQueryNode("Delivery", TransientVariable,
               SearchPredicate(TransientVariable, operator, language)) :
             operator \in SearchOperators, language \in SearchLanguages }

\* trees with a node of a class that has no processor, and with operators that the
\* handlers have no case for, as the whole tree and in the scope of r1
UnsupportedNodes ==
    { [type |-> "Unregistered"],
      BinaryOperationQueryNode(EntryLiteral(1), "XOR", EntryLiteral(2)),
      BinaryOperationQueryNode(EntryLiteral(1), "EQUAL", EntryLiteral(2)),
      UnaryOperationQueryNode(EntryLiteral(1), "NEGATE"),
      UnaryOperationQueryNode(EntryLiteral(1), "NOT"),
      OperatorWithLanguageQueryNode(EntryLiteral(1), "QUICKSEARCH_FUZZY", EntryLiteral(2),
                                    <<>>) }

UnsupportedInputs ==
    { InContextOf(kind, x) : kind \in ContextKinds, x \in UnsupportedNodes }

\* TransformList nodes in the scope of r1 whose parts are lowered to one line each:
\* lists that are and are not FollowEdge nodes, filters that simplifyBooleans folds to
\* true and filters it does not, orders of zero to two clauses, with and without a
\* limit, inner nodes with zero to two assignments to lift
LiftedVariable == VariableQueryNode(4, "w")

ClauseLists ==
    { EntitiesQueryNode("Delivery"),
      FieldQueryNode(ResultVariable(1), items, <<>>),
      FollowEdgeQueryNode("Delivery_handlingUnits", TRUE, ResultVariable(1)),
      FollowEdgeQueryNode("Delivery_handlingUnits", FALSE, ResultVariable(1)) }

ClauseFilters ==
    { ConstBoolQueryNode(TRUE),
      ConstBoolQueryNode(FALSE),
      not(ConstBoolQueryNode(FALSE)),
      BinaryOperationQueryNode(ConstBoolQueryNode(TRUE), "AND",
          BinaryOperationQueryNode(ItemField, "EQUAL", EntryLiteral(1))),
      BinaryOperationQueryNode(
          BinaryOperationQueryNode(ItemField, "EQUAL", EntryLiteral(1)), "OR",
          ConstBoolQueryNode(TRUE)) }

ClauseOrders ==
    { <<>>,
      << OrderClause(ItemField, "ASCENDING") >>,
      << OrderClause(ItemField, "DESCENDING") >>,
      << OrderClause(FieldQueryNode(TransientVariable, items, <<>>), "DESCENDING"),
         OrderClause(ItemField, "ASCENDING") >> }

ClauseInners ==
    { TransientVariable,
      ItemField,
      VariableAssignmentQueryNode(InnerVariable, ItemField, InnerVariable),
      BinaryOperationQueryNode(
          VariableAssignmentQueryNode(LiftedVariable, ItemField, LiftedVariable), "ADD",
          VariableAssignmentQueryNode(InnerVariable, EntryLiteral(1), InnerVariable)) }

ClauseInputs ==
    { InContextOf("r1",
          TransformListQueryNode(list, TransientVariable, filter, orderBy, limit[1],
                                 limit[2], inner)) :
        list \in ClauseLists, filter \in ClauseFilters, orderBy \in ClauseOrders,
        limit \in { << 0, <<>> >>, << 1, << 2 >> >> }, inner \in ClauseInners }

\* a TransformList in the scope of r1 with item t and the assignments u and w to
\* lift, and a reference to one variable at one position of it: as the list, as the
\* source of a FollowEdge list, as the filter, as a sort value, as the value of u or
\* of w, as the inner result, or next to the TransformList
UnboundVariable == VariableQueryNode(5, "x")

ProbePositions ==
    {"list", "edgeSource", "filter", "orderBy", "value1", "value2", "inner", "after"}

ProbeVariables ==
    {ResultVariable(1), TransientVariable, InnerVariable, LiftedVariable, UnboundVariable}

ScopeProbe(position, use) ==
    LET at(p, otherwise) == IF position = p THEN use ELSE otherwise
        transformList ==
            TransformListQueryNode(
                IF position = "edgeSource"
                THEN FollowEdgeQueryNode("Delivery_handlingUnits", TRUE, use)
                ELSE at("list", EntitiesQueryNode("Delivery")),
                TransientVariable,
                at("filter", ConstBoolQueryNode(TRUE)),
                IF position = "orderBy" THEN << OrderClause(use, "ASCENDING") >> ELSE <<>>,
                0, << 1 >>,
                VariableAssignmentQueryNode(InnerVariable, at("value1", EntryLiteral(1)),
                    VariableAssignmentQueryNode(LiftedVariable, at("value2", EntryLiteral(2)),
                        at("inner", EntryLiteral(0)))))
    IN  InContextOf("r1", IF position = "after"
                          THEN ListQueryNode(<< transformList, use >>)
                          ELSE transformList)

ScopeProbeInputs ==
    { ScopeProbe(position, use) : position \in ProbePositions, use \in ProbeVariables }

\* TransformList nodes in the scope of r1 that use the item in the filter, in the
\* sort value, in a lifted value and in the inner node: over root entities of both
\* types and a list that is no Entities node, with maxCount unset, 0 and 2, the inner
\* node the item itself or not
ProjectionInputs ==
    { InContextOf("r1",
          TransformListQueryNode(list, TransientVariable,
              BinaryOperationQueryNode(ItemField, "EQUAL", EntryLiteral(1)),
              << OrderClause(ItemField, "DESCENDING") >>, 0, maxCount, inner)) :
        list \in { EntitiesQueryNode("Delivery"), EntitiesQueryNode("HandlingUnit"),
                   FieldQueryNode(ResultVariable(1), items, <<>>) },
        maxCount \in { <<>>, << 0 >>, << 2 >> },
        inner \in { TransientVariable,
                    ItemField,
                    VariableAssignmentQueryNode(InnerVariable, ItemField,
                        BinaryOperationQueryNode(InnerVariable, "ADD",
                                                 TransientVariable)) } }

\* trees with assignments that createAQLCompoundQuery lifts to LET lines: one
\* assignment, two nested ones, assignments to two variables and to the same variable
\* in the operands of one operator, an operand that uses the variable of its sibling
AssignmentOf(v, i) == VariableAssignmentQueryNode(v, EntryLiteral(i), v)

HoistInputs ==
    { AssignmentOf(InnerVariable, 1),
      VariableAssignmentQueryNode(InnerVariable, EntryLiteral(1),
          VariableAssignmentQueryNode(LiftedVariable, InnerVariable, LiftedVariable)),
      FieldQueryNode(AssignmentOf(InnerVariable, 1), items, <<>>),
      not(AssignmentOf(InnerVariable, 1)),
      BinaryOperationQueryNode(AssignmentOf(InnerVariable, 1), "ADD",
                               AssignmentOf(LiftedVariable, 2)),
      BinaryOperationQueryNode(AssignmentOf(InnerVariable, 1), "ADD",
                               AssignmentOf(InnerVariable, 2)),
      BinaryOperationQueryNode(AssignmentOf(InnerVariable, 1), "ADD",
                               AssignmentOf(InnerVariable, 1)),
      BinaryOperationQueryNode(AssignmentOf(InnerVariable, 1), "ADD", InnerVariable),
      BinaryOperationQueryNode(EntryLiteral(0), "ADD",
          BinaryOperationQueryNode(AssignmentOf(LiftedVariable, 1), "ADD",
                                   AssignmentOf(InnerVariable, 2))) }

\* pre-execution queries that access collections, one of them registered inside
\* another one, under a result node that accesses none or another collection
NestedAccessInputs ==
    { WithPreExecutionQueryNode(
          << PreExecQueryParms(
                 WithPreExecutionQueryNode(
                     << PreExecQueryParms(
                            CreateEntityQueryNode("Delivery", ObjectQueryNode(<<>>)),
                            ResultVariable(2)) >>,
                     inner),
                 ResultVariable(1)) >> \o later,
          resultNode) :
        inner \in { EntryLiteral(1), EntitiesQueryNode("HandlingUnit"), ResultVariable(2) },
        later \in { <<>>,
                    << PreExecQueryParms(EntitiesQueryNode("Delivery"), NoNode) >>,
                    << PreExecQueryParms(
                           DeleteEntitiesQueryNode("HandlingUnit",
                               EntitiesQueryNode("HandlingUnit")), NoNode) >> },
        resultNode \in { EntryLiteral(0), ResultVariable(1),
                         EntitiesQueryNode("HandlingUnit") } }

Inputs ==
    PreExecInputs \cup ScopedPreExecInputs \cup TwoPreExecInputs \cup AccessInputs
        \cup TwoScopeInputs \cup LimitInputs \cup CountInputs \cup QuantifierInputs
        \cup LikeInputs \cup StartsWithInputs \cup SentinelInputs
        \cup FieldInputs \cup SearchInputs \cup UnsupportedInputs
        \cup ClauseInputs \cup ScopeProbeInputs \cup ProjectionInputs
        \cup HoistInputs \cup NestedAccessInputs

DefaultOptimizationConfig ==
    [enableExperimentalProjectionIndirection |-> FALSE,
     experimentalProjectionIndirectionTypeNames |-> <<>>]

NoCall ==
    [op |-> "none", receiver |-> 0, variable |-> NoNode, ok |-> TRUE, err |-> "",
     arg |-> "", frag |-> <<>>, returned |-> 0, before |-> NewHeap(DefaultOptimizationConfig)]

Init ==
    /\ node \in Inputs
    /\ aqlConfig \in OptimizationConfigs
    /\ pc = "ready"
    /\ result = [ok |-> FALSE, err |-> "not run", arg |-> "", cq |-> NoQuery,
                 H |-> NewHeap(aqlConfig)]
    /\ heap = NewHeap(DefaultOptimizationConfig)
    /\ contexts = <<>>
    /\ last = NoCall
    /\ compiled = <<>>
    /\ input = <<>>
    /\ messages = <<>>
    /\ seenArray = <<>>
    /\ returned = <<>>
    /\ views = <<>>
    /\ definitions = <<>>
    /\ configuration = <<>>
    /\ migrations = <<>>
    /\ promises = <<>>
    /\ invocations = <<>>
    /\ outcomes = <<>>
    /\ resolutions = <<>>

GetAQLQuery ==
    /\ pc = "ready"
    /\ result' = getAQLQuery(node, aqlConfig)
    /\ pc' = "done"
    /\ compiled' = Append(compiled, node)
    /\ UNCHANGED << node, aqlConfig, heap, contexts, last, input, messages, promises, invocations, outcomes, resolutions, views, definitions, configuration, migrations, seenArray, returned >>

Next == GetAQLQuery

Spec == Init /\ [][Next]_vars

(***************************************************************************)
(* The QueryContext operations as a state machine: a caller starts with    *)
(* new QueryContext() and calls the operations on the contexts it holds    *)
(***************************************************************************)
\* the variables and queries the caller passes
ContextVariables == {TransientVariable, TwinVariable}
ContextQueries == {EntryLiteral(1), TransientVariable}
ContextCollections == {getCollectionNameForRootEntity("Delivery")}

InitContext ==
    LET root == NewQueryContext(NewHeap(DefaultOptimizationConfig))
    IN  /\ node = NoNode
        /\ aqlConfig = DefaultOptimizationConfig
        /\ pc = "context"
        /\ result = [ok |-> FALSE, err |-> "not run", arg |-> "", cq |-> NoQuery,
                     H |-> NewHeap(DefaultOptimizationConfig)]
        /\ heap = root.H
        /\ contexts = << root.ctx >>
        /\ last = NoCall
        /\ compiled = <<>>
        /\ input = <<>>
        /\ messages = <<>>
        /\ seenArray = <<>>
        /\ returned = <<>>
        /\ views = <<>>
        /\ definitions = <<>>
        /\ configuration = <<>>
        /\ migrations = <<>>
        /\ promises = <<>>
        /\ invocations = <<>>
        /\ outcomes = <<>>
        /\ resolutions = <<>>

\* the fresh fragment variables and the Maps allocated so far stay within the bounds
CanAllocate == heap.nextVar <= MaxVariables /\ Len(heap.vm) <= MaxMaps

\* the caller keeps the context a call returned
Keep(r) == IF r.ok /\ r.ctx \notin Range(contexts) THEN Append(contexts, r.ctx) ELSE contexts

IndexOf(ctx, held) == CHOOSE i \in DOMAIN held : held[i] = ctx

CallIntroduceVariable ==
    /\ CanAllocate
    /\ \E c \in DOMAIN contexts, v \in ContextVariables :
           \E r \in {introduceVariable(contexts[c], v, heap)} :
               /\ heap' = r.H
               /\ contexts' = Keep(r)
               /\ last' = [op |-> "introduceVariable", receiver |-> c, variable |-> v,
                           ok |-> r.ok, err |-> r.err, arg |-> r.arg, frag |-> <<>>,
                           returned |-> IF r.ok THEN IndexOf(r.ctx, Keep(r)) ELSE 0,
                           before |-> heap]
               /\ UNCHANGED << node, aqlConfig, pc, result, compiled, input, messages, promises, invocations, outcomes, resolutions, views, definitions, configuration, migrations, seenArray, returned >>

CallAddPreExecuteQuery ==
    /\ CanAllocate
    /\ \E c \in DOMAIN contexts, q \in ContextQueries, rv \in ContextVariables \cup {NoNode} :
           \E r \in {addPreExecuteQuery(contexts[c], q, rv, "none", heap)} :
               /\ heap' = r.H
               /\ contexts' = Keep(r)
               /\ last' = [op |-> "addPreExecuteQuery", receiver |-> c, variable |-> rv,
                           ok |-> r.ok, err |-> r.err, arg |-> r.arg, frag |-> <<>>,
                           returned |-> IF r.ok THEN IndexOf(r.ctx, Keep(r)) ELSE 0,
                           before |-> heap]
               /\ UNCHANGED << node, aqlConfig, pc, result, compiled, input, messages, promises, invocations, outcomes, resolutions, views, definitions, configuration, migrations, seenArray, returned >>

CallGetVariable ==
    \E c \in DOMAIN contexts, v \in ContextVariables :
        \E r \in {getVariable(contexts[c], v, heap)} :
            /\ heap' = r.H
            /\ last' = [op |-> "getVariable", receiver |-> c, variable |-> v,
                        ok |-> r.ok, err |-> r.err, arg |-> r.arg, frag |-> r.frag,
                        returned |-> 0, before |-> heap]
            /\ UNCHANGED << node, aqlConfig, pc, result, contexts, compiled, input, messages, promises, invocations, outcomes, resolutions, views, definitions, configuration, migrations, seenArray, returned >>

CallAddCollectionAccess ==
    \E c \in DOMAIN contexts, collection \in ContextCollections,
       accessType \in {"READ", "WRITE"} :
        /\ heap' = addCollectionAccess(contexts[c], collection, accessType, heap)
        /\ last' = [op |-> "addCollectionAccess", receiver |-> c, variable |-> NoNode,
                    ok |-> TRUE, err |-> "", arg |-> "", frag |-> <<>>,
                    returned |-> 0, before |-> heap]
        /\ UNCHANGED << node, aqlConfig, pc, result, contexts, compiled, input, messages, promises, invocations, outcomes, resolutions, views, definitions, configuration, migrations, seenArray, returned >>

NextContext ==
    \/ CallIntroduceVariable
    \/ CallAddPreExecuteQuery
    \/ CallGetVariable
    \/ CallAddCollectionAccess

SpecContext == InitContext /\ [][NextContext]_vars

(***************************************************************************)
(* A process that compiles one tree after another: the objects of earlier  *)
(* compilations stay on its heap                                           *)
(***************************************************************************)
MaxCompilations == 2

\* trees that bind and use variables, register pre-execution queries, access
\* collections for reading and writing, use the optimization config, and fail
SessionInputs ==
    { TransientVariable,
      ResultVariable(1),
      VariableAssignmentQueryNode(TransientVariable, EntryLiteral(0), TransientVariable),
      FirstPreExec(ResultVariable(1)),
      WithPreExecutionQueryNode(
          << PreExecQueryParms(EntryLiteral(1), ResultVariable(1)),
             PreExecQueryParms(ResultVariable(1), ResultVariable(2)) >>,
          ListQueryNode(<< ResultVariable(1), ResultVariable(2) >>)),
      FirstPreExec(TransientVariable),
      InScopeOf("TransformList.inner", TransientVariable, ItemField),
      InScopeOf("TransformList.inner", TransientVariable,
                ObjectQueryNode(<< PropertySpecification(items, ItemField) >>)),
      InScopeOf("TransformList.filter", TransientVariable,
                BinaryOperationQueryNode(ItemField, "EQUAL", EntryLiteral(1))),
      InScopeOf("TransformList.inner", TransientVariable,
                VariableAssignmentQueryNode(TwinVariable, ItemField, TwinVariable)),
      CreateEntityQueryNode("Delivery",
          ObjectQueryNode(<< PropertySpecification(items, EntryLiteral(1)) >>)),
      WithPreExecutionQueryNode(
          << PreExecQueryParms(
                 CreateEntityQueryNode("Delivery",
                     ObjectQueryNode(<< PropertySpecification(items, EntryLiteral(1)) >>)),
                 ResultVariable(1)) >>,
          EntityFromIdQueryNode("Delivery", ResultVariable(1))),
      CountQueryNode(FollowEdgeQueryNode("Delivery_handlingUnits", TRUE,
                         EntityFromIdQueryNode("Delivery", EntryLiteral(1)))),
      RuntimeErrorQueryNode(<< "a" >>) }

InitSession ==
    /\ node = NoNode
    /\ aqlConfig \in OptimizationConfigs
    /\ pc = "session"
    /\ result = [ok |-> FALSE, err |-> "not run", arg |-> "", cq |-> NoQuery,
                 H |-> NewHeap(aqlConfig)]
    /\ heap = NewHeap(aqlConfig)
    /\ contexts = <<>>
    /\ last = NoCall
    /\ compiled = <<>>
    /\ input = <<>>
    /\ messages = <<>>
    /\ seenArray = <<>>
    /\ returned = <<>>
    /\ views = <<>>
    /\ definitions = <<>>
    /\ configuration = <<>>
    /\ migrations = <<>>
    /\ promises = <<>>
    /\ invocations = <<>>
    /\ outcomes = <<>>
    /\ resolutions = <<>>

\* a call of getAQLQuery(tree); what it allocated stays on the heap
Compile ==
    /\ pc = "session"
    /\ Len(compiled) < MaxCompilations
    /\ \E tree \in SessionInputs :
           \E r \in {getAQLQueryOn(tree, heap)} :
               /\ node' = tree
               /\ result' = r
               /\ heap' = r.H
               /\ compiled' = Append(compiled, tree)
               /\ last' = [op |-> "getAQLQuery", receiver |-> 0, variable |-> NoNode,
                           ok |-> r.ok, err |-> r.err, arg |-> r.arg, frag |-> <<>>,
                           returned |-> 0, before |-> heap]
               /\ UNCHANGED << aqlConfig, pc, contexts, input, messages, promises, invocations, outcomes, resolutions, views, definitions, configuration, migrations, seenArray, returned >>

NextSession == Compile

SpecSession == InitSession /\ [][NextSession]_vars

(***************************************************************************)
(* The i18n validation of a model (ModelI18n)                              *)
(***************************************************************************)
\* utils.groupArray(arr, keyFn): the items by key, the groups in the order in which
\* their keys occur first; keyFn is a function on the items
groupArray(arr, keyFn) ==
    LET keys == [i \in DOMAIN arr |-> keyFn[arr[i]]]
        isFirst(i) == \A j \in 1..(i - 1) : keys[j] /= keys[i]
        RECURSIVE groupsFrom(_)
        groupsFrom(i) ==
            IF i > Len(arr) THEN <<>>
            ELSE IF isFirst(i)
            THEN << [key |-> keys[i],
                     values |-> SelectSeq(arr, LAMBDA item : keyFn[item] = keys[i])] >>
                     \o groupsFrom(i + 1)
            ELSE groupsFrom(i + 1)
    IN  groupsFrom(1)

\* isExistingAndAdd with the answers exchanged
isExistingAndAdd_TrueOnFirst(search, array) ==
    IF \E i \in DOMAIN array : array[i] = search
    THEN [returned |-> FALSE, array |-> Append(array, search)]
    ELSE [returned |-> TRUE, array |-> Append(array, search)]

\* isExistingAndAdd without the lookup
isExistingAndAdd_NeverExisting(search, array) ==
    [returned |-> FALSE, array |-> Append(array, search)]

\* returns whether search is in the array already; pushes it in both cases
isExistingAndAdd(search, array) ==
    IF \E i \in DOMAIN array : array[i] = search
    THEN [returned |-> TRUE, array |-> Append(array, search)]
    ELSE [returned |-> FALSE, array |-> Append(array, search)]

\* ModelLocalizationProvider.validate: the messages it adds to the validation
\* context.  A namespace localization is [namespacePath, types, loc]; types and
\* fields are the properties of the objects in their enumeration order; an absent
\* or empty attribute is "".  typeConf.loc tells the messages of two type
\* localizations apart.
validate(namespaces) ==
    LET RECURSIVE join(_)
        join(path) ==
            IF Len(path) = 0 THEN ""
            ELSE IF Len(path) = 1 THEN path[1]
            ELSE path[1] \o "/" \o join(Tail(path))
        error(attribute, field, type, loc) ==
            [severity |-> "ERROR", attribute |-> attribute, field |-> field,
             type |-> type, loc |-> loc]
        \* the conditions  conf.x && this.isExistingAndAdd(key, alreadySeen)  in order
        ofType(type, typeConf, loc) ==
            << [value |-> typeConf.hint, key |-> type \o "/hint",
                message |-> error("hint", "", type, loc)],
               [value |-> typeConf.singular, key |-> type \o "/singular",
                message |-> error("singular", "", type, loc)],
               [value |-> typeConf.plural, key |-> type \o "/plural",
                message |-> error("plural", "", type, loc)] >>
        ofField(type, field, fieldConf, loc) ==
            << [value |-> fieldConf.label, key |-> type \o "/" \o field \o "/label",
                message |-> error("label", field, type, loc)],
               [value |-> fieldConf.hint, key |-> type \o "/" \o field \o "/hint",
                message |-> error("hint", field, type, loc)] >>
        RECURSIVE ofFields(_, _, _)
        ofFields(type, fields, loc) ==
            IF Len(fields) = 0 THEN <<>>
            ELSE ofField(type, fields[1].name, fields[1].conf, loc)
                     \o ofFields(type, Tail(fields), loc)
        RECURSIVE ofTypes(_, _)
        ofTypes(types, loc) ==
            IF Len(types) = 0 THEN <<>>
            ELSE ofType(types[1].name, types[1].conf, loc)
                     \o ofFields(types[1].name, types[1].conf.fields, loc)
                     \o ofTypes(Tail(types), loc)
        RECURSIVE ofNamespaces(_)
        ofNamespaces(group) ==
            IF Len(group) = 0 THEN <<>>
            ELSE ofTypes(group[1].types, group[1].loc) \o ofNamespaces(Tail(group))
        RECURSIVE visit(_, _)
        visit(conditions, alreadySeen) ==
            IF Len(conditions) = 0 THEN <<>>
            ELSE IF conditions[1].value = "" THEN visit(Tail(conditions), alreadySeen)
            ELSE LET seen(r) ==
                         (IF r.returned THEN << conditions[1].message >> ELSE <<>>)
                             \o visit(Tail(conditions), r.array)
                 IN  seen(isExistingAndAdd(conditions[1].key, alreadySeen))
        RECURSIVE ofGroups(_)
        ofGroups(groups) ==
            IF Len(groups) = 0 THEN <<>>
            ELSE visit(ofNamespaces(groups[1].values), <<>>) \o ofGroups(Tail(groups))
    IN  ofGroups(groupArray(namespaces,
                            [ns \in Range(namespaces) |-> join(ns.namespacePath)]))

\* new ModelI18n(input, model).validate(context): one provider per language, each
\* validated on its own
validateModelI18n(localizationConfigs) ==
    LET RECURSIVE ofLanguages(_)
        ofLanguages(configsByLanguage) ==
            IF Len(configsByLanguage) = 0 THEN <<>>
            ELSE validate([i \in DOMAIN configsByLanguage[1].values |->
                              configsByLanguage[1].values[i].namespaceContent])
                     \o ofLanguages(Tail(configsByLanguage))
    IN  ofLanguages(groupArray(localizationConfigs,
                               [config \in Range(localizationConfigs) |-> config.language]))

MaxConfigs == 2

\* localizations of types: all attributes, some of them, none; the same and another
\* type; a field that has the name of an attribute
Languages == {"en", "de"}
NamespacePaths == { <<>>, << "a" >>, << "a", "b" >> }
TypeConf(hint, singular, plural, fields) ==
    [hint |-> hint, singular |-> singular, plural |-> plural, fields |-> fields]
FieldConf(name, label, hint) == [name |-> name, conf |-> [label |-> label, hint |-> hint]]
TypeLocalizations ==
    { <<>>,
      << [name |-> "Skill",
          conf |-> TypeConf("h", "s", "p", << FieldConf("description", "l", "h") >>)] >>,
      << [name |-> "Skill", conf |-> TypeConf("h", "", "", <<>>)] >>,
      << [name |-> "Skill",
          conf |-> TypeConf("", "", "", << FieldConf("description", "l", ""),
                                           FieldConf("age", "", "") >>)] >>,
      << [name |-> "Skill",
          conf |-> TypeConf("", "s", "", << FieldConf("hint", "", "h") >>)] >>,
      << [name |-> "Mission",
          conf |-> TypeConf("h", "", "p", << FieldConf("description", "l", "h") >>)],
         [name |-> "Skill", conf |-> TypeConf("h", "", "p", <<>>)] >> }

\* the i-th localization of the input; its position is its location
LocalizationConfigsAt(i) ==
    { [language |-> language,
       namespaceContent |-> [namespacePath |-> path, types |-> types, loc |-> i]] :
        language \in Languages, path \in NamespacePaths, types \in TypeLocalizations }

RECURSIVE LocalizationInputs(_)
LocalizationInputs(n) ==
    IF n = 0 THEN { <<>> }
    ELSE LocalizationInputs(n - 1)
             \cup { Append(shorter, config) :
                      shorter \in { s \in LocalizationInputs(n - 1) : Len(s) = n - 1 },
                      config \in LocalizationConfigsAt(n) }

InitI18n ==
    /\ node = NoNode
    /\ aqlConfig = DefaultOptimizationConfig
    /\ pc = "constructed"
    /\ result = [ok |-> FALSE, err |-> "not run", arg |-> "", cq |-> NoQuery,
                 H |-> NewHeap(DefaultOptimizationConfig)]
    /\ heap = NewHeap(DefaultOptimizationConfig)
    /\ contexts = <<>>
    /\ last = NoCall
    /\ compiled = <<>>
    /\ input \in LocalizationInputs(MaxConfigs)
    /\ messages = <<>>
    /\ seenArray = <<>>
    /\ returned = <<>>
    /\ views = <<>>
    /\ definitions = <<>>
    /\ configuration = <<>>
    /\ migrations = <<>>
    /\ promises = <<>>
    /\ invocations = <<>>
    /\ outcomes = <<>>
    /\ resolutions = <<>>

Validate ==
    /\ pc = "constructed"
    /\ messages' = validateModelI18n(input)
    /\ pc' = "validated"
    /\ UNCHANGED << node, aqlConfig, result, heap, contexts, last, compiled, input, promises, invocations, outcomes, resolutions, views, definitions, configuration, migrations, seenArray, returned >>

NextI18n == Validate

SpecI18n == InitI18n /\ [][NextI18n]_vars

(***************************************************************************)
(* Operation-based resolvers (graphql/operation-based-resolvers.ts)        *)
(***************************************************************************)

\* the field resolutions one run starts at most
MaxResolutions == 3

NoAlias == ""

\* an optional property: undefined, or present with a value
Undefined == [defined |-> FALSE]
Defined(value) == [defined |-> TRUE, value |-> value]

\* the root types that convertType wraps, each with a WeakMap of its own
RootTypes == {"query", "mutation"}

\* OperationDefinitionNode objects, compared by identity
Operations ==
    { [id |-> 1, operation |-> "query"],
      [id |-> 2, operation |-> "query"],
      [id |-> 3, operation |-> "mutation"] }

\* the field nodes of the selections: a field, and the same field under an alias
FieldNodes ==
    { [alias |-> NoAlias, name |-> "a"], [alias |-> "x", name |-> "a"] }

\* getAliasOrName: the response key of a field node
getAliasOrName(fieldNode) ==
    IF fieldNode.alias /= NoAlias THEN fieldNode.alias ELSE fieldNode.name

ResponseKeys == { getAliasOrName(fieldNode) : fieldNode \in FieldNodes }

\* what the promise of the p-th invocation of operationResolver settles to
OperationResult(p) == [key \in ResponseKeys |-> [invocation |-> p, key |-> key]]

OperationError(p) == [invocation |-> p, key |-> "error"]

\* resolveOp without promises.set: every resolution invokes operationResolver
resolveOp_Uncached(rootType, info, P, I, O) ==
    LET cached == P[rootType][info.operation]
        promise == Len(I) + 1
    IN  IF cached.defined
        THEN [promise |-> cached.value, promises |-> P, invocations |-> I, outcomes |-> O]
        ELSE [promise |-> promise,
              promises |-> P,
              invocations |-> Append(I, info),
              outcomes |-> Append(O, [state |-> "pending", value |-> Undefined])]

\* resolveOp of one root type: the cached promise of info.operation, or the
\* promise of a new invocation of operationResolver, which it caches
resolveOp(rootType, info, P, I, O) ==
    LET cached == P[rootType][info.operation]
        promise == Len(I) + 1
    IN  IF cached.defined
        THEN [promise |-> cached.value, promises |-> P, invocations |-> I, outcomes |-> O]
        ELSE [promise |-> promise,
              promises |-> [P EXCEPT ![rootType][info.operation] = Defined(promise)],
              invocations |-> Append(I, info),
              outcomes |-> Append(O, [state |-> "pending", value |-> Undefined])]

\* the resolve function of a wrapped field: resolveOp(...).then(res => res[key])
resolve(rootType, info, P, I, O, R) ==
    LET op == resolveOp(rootType, info, P, I, O)
    IN  [promises |-> op.promises, invocations |-> op.invocations, outcomes |-> op.outcomes,
         resolutions |-> Append(R, [rootType |-> rootType, info |-> info,
                                    promise |-> op.promise, state |-> "pending",
                                    value |-> Undefined])]

InitResolvers ==
    /\ node = NoNode
    /\ aqlConfig = DefaultOptimizationConfig
    /\ pc = "constructed"
    /\ result = [ok |-> FALSE, err |-> "not run", arg |-> "", cq |-> NoQuery,
                 H |-> NewHeap(DefaultOptimizationConfig)]
    /\ heap = NewHeap(DefaultOptimizationConfig)
    /\ contexts = <<>>
    /\ last = NoCall
    /\ compiled = <<>>
    /\ input = <<>>
    /\ messages = <<>>
    /\ seenArray = <<>>
    /\ returned = <<>>
    /\ views = <<>>
    /\ definitions = <<>>
    /\ configuration = <<>>
    /\ migrations = <<>>
    /\ promises = [rootType \in RootTypes |-> [operation \in Operations |-> Undefined]]
    /\ invocations = <<>>
    /\ outcomes = <<>>
    /\ resolutions = <<>>

\* the executor resolves a field of the root type of an operation
ResolveField ==
    /\ Len(resolutions) < MaxResolutions
    /\ \E operation \in Operations, fieldNode \in FieldNodes :
         \E r \in {resolve(operation.operation,
                           [operation |-> operation, fieldNodes |-> <<fieldNode>>],
                           promises, invocations, outcomes, resolutions)} :
            /\ promises' = r.promises
            /\ invocations' = r.invocations
            /\ outcomes' = r.outcomes
            /\ resolutions' = r.resolutions
    /\ UNCHANGED << node, aqlConfig, pc, result, heap, contexts, last, compiled, input, messages, views, definitions, configuration, migrations, seenArray, returned >>

\* the promise that operationResolver returned is fulfilled with the result of
\* the operation, or rejected
SettleOperation ==
    /\ \E p \in DOMAIN outcomes, state \in {"fulfilled", "rejected"} :
         /\ outcomes[p].state = "pending"
         /\ outcomes' = [outcomes EXCEPT ![p] =
                            [state |-> state,
                             value |-> IF state = "fulfilled"
                                       THEN OperationResult(p)
                                       ELSE OperationError(p)]]
    /\ UNCHANGED << node, aqlConfig, pc, result, heap, contexts, last, compiled, input, messages,
                    promises, invocations, resolutions, views, definitions, configuration, migrations, seenArray, returned >>

\* the continuation of a field runs once the shared promise is settled:
\* res => res[getAliasOrName(info.fieldNodes[0])], a rejection passes through
Then ==
    /\ \E i \in DOMAIN resolutions :
         LET resolution == resolutions[i]
             outcome == outcomes[resolution.promise]
         IN  /\ resolution.state = "pending"
             /\ outcome.state /= "pending"
             /\ resolutions' =
                  [resolutions EXCEPT ![i] =
                     IF outcome.state = "fulfilled"
                     THEN [resolution EXCEPT !.state = "fulfilled",
                              !.value = outcome.value[getAliasOrName(resolution.info.fieldNodes[1])]]
                     ELSE [resolution EXCEPT !.state = "rejected", !.value = outcome.value]]
    /\ UNCHANGED << node, aqlConfig, pc, result, heap, contexts, last, compiled, input, messages,
                    promises, invocations, outcomes, views, definitions, configuration, migrations, seenArray, returned >>

NextResolvers ==
    \/ ResolveField
    \/ SettleOperation
    \/ Then

SpecResolvers == InitResolvers /\ [][NextResolvers]_vars

(***************************************************************************)
(* Search-view migration planning (arango-search-helpers)                  *)
(***************************************************************************)

\* the existing views of a database, and the deepest configured recursion
MaxViews == 3
MaxRecursionDepth == 2

ID_FIELD == "id"

ModelField(declaringType, name, type, indexed, fulltext, language) ==
    [declaringType |-> declaringType, name |-> name, type |-> type,
     isSystemField |-> name = ID_FIELD,
     isFlexSearchIndexed |-> indexed, isFlexSearchFulltextIndexed |-> fulltext,
     flexSearchLanguage |-> language]

\* the object types of the model; Recursion is the value object with a field of
\* its own type, Loop and Back refer to each other
ObjectTypeNames == {"Delivery", "HandlingUnit", "Recursion", "Loop", "Back"}

FieldsOfType(type) ==
    CASE type = "Delivery" ->
            << ModelField("Delivery", "id", "ID", TRUE, FALSE, <<>>),
               ModelField("Delivery", "deliveryNumber", "String", TRUE, FALSE, <<>>),
               ModelField("Delivery", "description", "String", FALSE, TRUE, << "D", "E" >>),
               ModelField("Delivery", "title", "String", TRUE, TRUE, << "E", "N" >>),
               ModelField("Delivery", "internal", "String", FALSE, FALSE, <<>>),
               ModelField("Delivery", "recursion", "Recursion", TRUE, FALSE, <<>>) >>
      [] type = "Recursion" ->
            << ModelField("Recursion", "recursion", "Recursion", TRUE, FALSE, <<>>),
               ModelField("Recursion", "name", "String", TRUE, FALSE, <<>>) >>
      [] type = "HandlingUnit" ->
            << ModelField("HandlingUnit", "id", "ID", TRUE, FALSE, <<>>),
               ModelField("HandlingUnit", "loop", "Loop", TRUE, FALSE, <<>>) >>
      [] type = "Loop" ->
            << ModelField("Loop", "back", "Back", TRUE, FALSE, <<>>),
               ModelField("Loop", "hidden", "Recursion", FALSE, FALSE, <<>>) >>
      [] type = "Back" ->
            << ModelField("Back", "loop", "Loop", TRUE, FALSE, <<>>),
               ModelField("Back", "note", "String", FALSE, TRUE, <<>>) >>
      [] OTHER -> <<>>

flexSearchPrimarySort(rootEntityType) ==
    IF rootEntityType = "Delivery"
    THEN << [field |-> "deliveryNumber", asc |-> TRUE] >>
    ELSE <<>>

\* the database: the collection of deliveries holds three documents, the
\* collection of handling units does not exist yet
CollectionSize(collectionName) ==
    IF collectionName = getCollectionNameForRootEntity("Delivery") THEN 3 ELSE 0

\* getRequiredViewsFromModel with getViewForRootEntity: the definitions of the
\* flex-search indexed root entity types, in the order of the model
getRequiredViewsFromModel(model) ==
    LET getViewForRootEntity(rootEntityType) ==
            [rootEntityType |-> rootEntityType,
             viewName |-> getFlexSearchViewNameForRootEntity(rootEntityType),
             collectionName |-> getCollectionNameForRootEntity(rootEntityType),
             primarySort |-> flexSearchPrimarySort(rootEntityType)]
        flexSearchIndexed == SelectSeq(model.rootEntityTypes,
                                       LAMBDA value : value.isFlexSearchIndexed)
    IN  [i \in DOMAIN flexSearchIndexed |-> getViewForRootEntity(flexSearchIndexed[i].name)]

\* a link of a view: analyzers and fields are optional, the three settings are
\* present on the link of the collection only
Link(analyzers, fields) ==
    [analyzers |-> analyzers, fields |-> fields, includeAllFields |-> Undefined,
     storeValues |-> Undefined, trackListPositions |-> Undefined]

\* the object that the loop of fieldDefinitionsFor fills: a later field of the
\* same name replaces an earlier one
RECURSIVE fieldDefinitionsFor(_, _, _)
RECURSIVE fieldDefinitionFor(_, _, _)
fieldDefinitionsFor(fields, path, recursionDepth) ==
    LET occurrences(field) == Len(SelectSeq(path, LAMBDA f : f = field))
        fieldsToIndex ==
            SelectSeq(fields, LAMBDA field :
                /\ (field.isFlexSearchIndexed \/ field.isFlexSearchFulltextIndexed)
                /\ occurrences(field) < recursionDepth)
        arangoFieldName(field) ==
            IF /\ field.declaringType \in RootEntityTypes
               /\ field.isSystemField
               /\ field.name = ID_FIELD
            THEN "_key"
            ELSE field.name
        names == { arangoFieldName(fieldsToIndex[i]) : i \in DOMAIN fieldsToIndex }
        lastOf(name) ==
            CHOOSE i \in DOMAIN fieldsToIndex :
                /\ arangoFieldName(fieldsToIndex[i]) = name
                /\ \A j \in DOMAIN fieldsToIndex :
                      arangoFieldName(fieldsToIndex[j]) = name => j <= i
    IN  [name \in names |->
            fieldDefinitionFor(fieldsToIndex[lastOf(name)],
                               Append(path, fieldsToIndex[lastOf(name)]), recursionDepth)]

fieldDefinitionFor(field, path, recursionDepth) ==
    IF field.type \in ObjectTypeNames
    THEN Link(Undefined, Defined(fieldDefinitionsFor(FieldsOfType(field.type), path, recursionDepth)))
    ELSE LET fulltext ==
                 IF field.isFlexSearchFulltextIndexed /\ Len(field.flexSearchLanguage) > 0
                 THEN << getAnalyzerFromFlexSearchLanguage(field.flexSearchLanguage) >>
                 ELSE <<>>
             analyzers ==
                 IF field.isFlexSearchIndexed
                 THEN Append(fulltext, IDENTITY_ANALYZER)
                 ELSE fulltext
         IN  IF analyzers = << IDENTITY_ANALYZER >>
             THEN Link(Undefined, Undefined)
             ELSE Link(Defined(analyzers), Undefined)

\* the recursion depth as configured, 0 included
getPropertiesFromDefinition_DepthAsGiven(definition, config) ==
    LET given(option) == option.defined /\ option.value /= 0
        recursionDepth ==
            IF config.defined /\ config.value.recursionDepth.defined
            THEN config.value.recursionDepth.value
            ELSE 1
        collectionLink ==
            [analyzers |-> Defined(<< IDENTITY_ANALYZER >>),
             includeAllFields |-> Defined(FALSE),
             storeValues |-> Defined("id"),
             trackListPositions |-> Defined(FALSE),
             fields |-> Defined(fieldDefinitionsFor(FieldsOfType(definition.rootEntityType),
                                                    <<>>, recursionDepth))]
    IN  [links |-> [name \in {definition.collectionName} |-> collectionLink],
         commitIntervalMsec |->
            Defined(IF config.defined /\ given(config.value.commitIntervalMsec)
                    THEN config.value.commitIntervalMsec.value
                    ELSE 1000),
         primarySort |-> Defined(definition.primarySort)]

\* configuration is Undefined or a record of optional recursionDepth and
\* commitIntervalMsec; a number counts as given when it is not 0
getPropertiesFromDefinition(definition, config) ==
    LET given(option) == option.defined /\ option.value /= 0
        recursionDepth ==
            IF config.defined /\ given(config.value.recursionDepth)
            THEN config.value.recursionDepth.value
            ELSE 1
        collectionLink ==
            [analyzers |-> Defined(<< IDENTITY_ANALYZER >>),
             includeAllFields |-> Defined(FALSE),
             storeValues |-> Defined("id"),
             trackListPositions |-> Defined(FALSE),
             fields |-> Defined(fieldDefinitionsFor(FieldsOfType(definition.rootEntityType),
                                                    <<>>, recursionDepth))]
    IN  [links |-> [name \in {definition.collectionName} |-> collectionLink],
         commitIntervalMsec |->
            Defined(IF config.defined /\ given(config.value.commitIntervalMsec)
                    THEN config.value.commitIntervalMsec.value
                    ELSE 1000),
         primarySort |-> Defined(definition.primarySort)]

isEqualProperties(definitionProperties, viewProperties) ==
    /\ definitionProperties.links = viewProperties.links
    /\ definitionProperties.primarySort = viewProperties.primarySort
    /\ definitionProperties.commitIntervalMsec = viewProperties.commitIntervalMsec

\* a recreation only when the links are equal
isRecreateRequired_LinksEqual(definitionProperties, viewProperties) ==
    /\ definitionProperties.primarySort /= viewProperties.primarySort
    /\ definitionProperties.links = viewProperties.links

isRecreateRequired(definitionProperties, viewProperties) ==
    definitionProperties.primarySort /= viewProperties.primarySort

HasView(existingViews, name) ==
    \E i \in DOMAIN existingViews : existingViews[i].name = name

HasDefinition(requiredViews, name) ==
    \E i \in DOMAIN requiredViews : requiredViews[i].viewName = name

startsWith(string, prefix) ==
    /\ Len(string) >= Len(prefix)
    /\ SubSeq(string, 1, Len(prefix)) = prefix

calculateRequiredArangoSearchViewCreateOperations(existingViews, requiredViews, config) ==
    LET viewsToCreate ==
            SelectSeq(requiredViews, LAMBDA value : ~HasView(existingViews, value.viewName))
        mapToMigration(value) ==
            [type |-> "create",
             collectionSize |-> CollectionSize(value.collectionName),
             collectionName |-> value.collectionName,
             viewName |-> value.viewName,
             properties |-> getPropertiesFromDefinition(value, config)]
    IN  [i \in DOMAIN viewsToCreate |-> mapToMigration(viewsToCreate[i])]

\* the drop operations without the test of the prefix
calculateRequiredArangoSearchViewDropOperations_AnyName(existingViews, requiredViews) ==
    LET viewsToDrop ==
            SelectSeq(existingViews, LAMBDA value : ~HasDefinition(requiredViews, value.name))
    IN  [i \in DOMAIN viewsToDrop |-> [type |-> "drop", viewName |-> viewsToDrop[i].name]]

calculateRequiredArangoSearchViewDropOperations(existingViews, requiredViews) ==
    LET viewsToDrop ==
            SelectSeq(existingViews, LAMBDA value :
                /\ ~HasDefinition(requiredViews, value.name)
                /\ startsWith(value.name, FLEX_SEARCH_VIEW_PREFIX))
    IN  [i \in DOMAIN viewsToDrop |-> [type |-> "drop", viewName |-> viewsToDrop[i].name]]

RECURSIVE calculateRequiredArangoSearchViewUpdateOperations(_, _, _)
calculateRequiredArangoSearchViewUpdateOperations(existingViews, requiredViews, config) ==
    IF Len(existingViews) = 0
    THEN <<>>
    ELSE LET view == Head(existingViews)
             rest == calculateRequiredArangoSearchViewUpdateOperations(
                         Tail(existingViews), requiredViews, config)
         IN  IF ~HasDefinition(requiredViews, view.name)
             THEN rest
             ELSE LET definition ==
                          requiredViews[CHOOSE i \in DOMAIN requiredViews :
                              /\ requiredViews[i].viewName = view.name
                              /\ \A j \in DOMAIN requiredViews :
                                    requiredViews[j].viewName = view.name => i <= j]
                      definitionProperties == getPropertiesFromDefinition(definition, config)
                      migration(type) ==
                          [type |-> type,
                           viewName |-> definition.viewName,
                           collectionName |-> definition.collectionName,
                           collectionSize |-> CollectionSize(definition.collectionName),
                           properties |-> definitionProperties]
                  IN  IF isEqualProperties(definitionProperties, view.properties)
                      THEN rest
                      ELSE IF isRecreateRequired(definitionProperties, view.properties)
                           THEN << migration("recreate") >> \o rest
                           ELSE << migration("update") >> \o rest

\* the names of the views a database may hold: the views of the two root entity
\* types, a view of another application, and a flex-search view left behind
OtherViewName == << "o", "t", "h", "e", "r" >>
LeftoverViewName == FLEX_SEARCH_VIEW_PREFIX \o << "o", "l", "d" >>

ViewNames ==
    { getFlexSearchViewNameForRootEntity(rootEntityType) : rootEntityType \in RootEntityTypes }
        \cup {OtherViewName, LeftoverViewName}

NoLinks == [name \in {} |-> Undefined]

\* the properties a view may have: of the view of a root entity type, the links
\* that the default configuration gives or links without fields, any primary
\* sort, the default commit interval
ViewPropertiesOf(name) ==
    IF \E rootEntityType \in RootEntityTypes :
           name = getFlexSearchViewNameForRootEntity(rootEntityType)
    THEN LET rootEntityType == CHOOSE type \in RootEntityTypes :
                                   name = getFlexSearchViewNameForRootEntity(type)
             collectionName == getCollectionNameForRootEntity(rootEntityType)
             model == [rootEntityTypes |-> << [name |-> rootEntityType, isFlexSearchIndexed |-> TRUE] >>]
             definition == getRequiredViewsFromModel(model)[1]
         IN  { [links |-> links, primarySort |-> primarySort, commitIntervalMsec |-> Defined(1000)] :
                   links \in { getPropertiesFromDefinition(definition, Undefined).links,
                               [linked \in {collectionName} |-> Link(Undefined, Undefined)] },
                   primarySort \in { Undefined, Defined(<<>>),
                                     Defined(flexSearchPrimarySort("Delivery")) } }
    ELSE { [links |-> NoLinks, primarySort |-> Undefined, commitIntervalMsec |-> Defined(1000)] }

\* the sequences of at most n views with different names
RECURSIVE ExistingViews(_)
ExistingViews(n) ==
    IF n = 0
    THEN { <<>> }
    ELSE LET shorter == ExistingViews(n - 1)
             longest == { existing \in shorter : Len(existing) = n - 1 }
             unused(existing) ==
                 { name \in ViewNames : \A i \in DOMAIN existing : existing[i].name /= name }
         IN  shorter \cup
             UNION { { Append(x[1], [name |-> x[2], properties |-> properties]) :
                           properties \in ViewPropertiesOf(x[2]) } :
                     x \in { y \in longest \X ViewNames : y[2] \in unused(y[1]) } }

Models ==
    { [rootEntityTypes |-> << [name |-> "Delivery", isFlexSearchIndexed |-> delivery],
                              [name |-> "HandlingUnit", isFlexSearchIndexed |-> unit] >>] :
          delivery \in BOOLEAN, unit \in BOOLEAN }

Configurations(depth) ==
    { Undefined,
      Defined([recursionDepth |-> Undefined, commitIntervalMsec |-> Defined(2000)]),
      Defined([recursionDepth |-> Undefined, commitIntervalMsec |-> Defined(0)]) }
        \cup { Defined([recursionDepth |-> Defined(d), commitIntervalMsec |-> Undefined]) :
                   d \in 0..depth }

InitSearch ==
    /\ node = NoNode
    /\ aqlConfig = DefaultOptimizationConfig
    /\ pc = "constructed"
    /\ result = [ok |-> FALSE, err |-> "not run", arg |-> "", cq |-> NoQuery,
                 H |-> NewHeap(DefaultOptimizationConfig)]
    /\ heap = NewHeap(DefaultOptimizationConfig)
    /\ contexts = <<>>
    /\ last = NoCall
    /\ compiled = <<>>
    /\ input = <<>>
    /\ messages = <<>>
    /\ seenArray = <<>>
    /\ returned = <<>>
    /\ promises = <<>>
    /\ invocations = <<>>
    /\ outcomes = <<>>
    /\ resolutions = <<>>
    /\ views \in ExistingViews(MaxViews)
    /\ \E model \in Models : definitions = getRequiredViewsFromModel(model)
    /\ configuration \in Configurations(MaxRecursionDepth)
    /\ migrations = [create |-> Undefined, drop |-> Undefined, update |-> Undefined]

CalculateCreateOperations ==
    /\ ~migrations.create.defined
    /\ \E r \in {calculateRequiredArangoSearchViewCreateOperations(views, definitions, configuration)} :
          migrations' = [migrations EXCEPT !.create = Defined(r)]
    /\ UNCHANGED << node, aqlConfig, pc, result, heap, contexts, last, compiled, input, messages,
                    promises, invocations, outcomes, resolutions, views, definitions, configuration, seenArray, returned >>

CalculateDropOperations ==
    /\ ~migrations.drop.defined
    /\ \E r \in {calculateRequiredArangoSearchViewDropOperations(views, definitions)} :
          migrations' = [migrations EXCEPT !.drop = Defined(r)]
    /\ UNCHANGED << node, aqlConfig, pc, result, heap, contexts, last, compiled, input, messages,
                    promises, invocations, outcomes, resolutions, views, definitions, configuration, seenArray, returned >>

CalculateUpdateOperations ==
    /\ ~migrations.update.defined
    /\ \E r \in {calculateRequiredArangoSearchViewUpdateOperations(views, definitions, configuration)} :
          migrations' = [migrations EXCEPT !.update = Defined(r)]
    /\ UNCHANGED << node, aqlConfig, pc, result, heap, contexts, last, compiled, input, messages,
                    promises, invocations, outcomes, resolutions, views, definitions, configuration, seenArray, returned >>

NextSearch ==
    \/ CalculateCreateOperations
    \/ CalculateDropOperations
    \/ CalculateUpdateOperations

SpecSearch == InitSearch /\ [][NextSearch]_vars

(***************************************************************************)
(* The keys one group of namespaces has seen (i18n validation)             *)
(***************************************************************************)

\* the calls of isExistingAndAdd on one array
MaxCalls == 4

\* keys as validate builds them: 'type/' + type, type + '/' + attribute
SeenKeys == {"type/Delivery", "Delivery/label", "Delivery/hint"}

InitSeen ==
    /\ node = NoNode
    /\ aqlConfig = DefaultOptimizationConfig
    /\ pc = "constructed"
    /\ result = [ok |-> FALSE, err |-> "not run", arg |-> "", cq |-> NoQuery,
                 H |-> NewHeap(DefaultOptimizationConfig)]
    /\ heap = NewHeap(DefaultOptimizationConfig)
    /\ contexts = <<>>
    /\ last = NoCall
    /\ compiled = <<>>
    /\ input = <<>>
    /\ messages = <<>>
    /\ promises = <<>>
    /\ invocations = <<>>
    /\ outcomes = <<>>
    /\ resolutions = <<>>
    /\ views = <<>>
    /\ definitions = <<>>
    /\ configuration = <<>>
    /\ migrations = <<>>
    /\ seenArray = <<>>
    /\ returned = <<>>

\* validate calls this.isExistingAndAdd(search, alreadySeen)
IsExistingAndAdd ==
    /\ Len(returned) < MaxCalls
    /\ \E search \in SeenKeys :
         \E r \in {isExistingAndAdd(search, seenArray)} :
            /\ seenArray' = r.array
            /\ returned' = Append(returned, [search |-> search, returned |-> r.returned])
    /\ UNCHANGED << node, aqlConfig, pc, result, heap, contexts, last, compiled, input, messages,
                    promises, invocations, outcomes, resolutions, views, definitions,
                    configuration, migrations >>

NextSeen == IsExistingAndAdd

SpecSeen == InitSeen /\ [][NextSeen]_vars

(***************************************************************************)
(* Properties                                                              *)
(***************************************************************************)
Done == pc = "done"

\* the pre-execution list of the compound query that getAQLQuery returned
MainPreExecQueries == result.H.pre[result.cq.preExecQueries]

\* the ids of the result variables that the entries before the i-th declare
DeclaredBefore(entries, i) ==
    { entries[j].resultVariable.id :
        j \in { k \in 1..(i - 1) : entries[k].resultVariable.type = "Variable" } }

RefersOnlyTo(q, ids) == q.type = "Variable" => q.id \in ids

\* a WithPreExecution node whose queries and result node are literals or variables
IsPlainPreExec(n) ==
    /\ n.type = "WithPreExecution"
    /\ \A i \in 1..Len(n.preExecQueries) :
          n.preExecQueries[i].query.type \in {"Literal", "Variable"}
    /\ n.resultNode.type \in {"Literal", "Variable"}

\* every query refers only to result variables of earlier entries, the result node
\* only to result variables of the entries
ScopedInDeclaredOrder(n) ==
    /\ \A i \in 1..Len(n.preExecQueries) :
          RefersOnlyTo(n.preExecQueries[i].query, DeclaredBefore(n.preExecQueries, i))
    /\ RefersOnlyTo(n.resultNode,
                    DeclaredBefore(n.preExecQueries, Len(n.preExecQueries) + 1))

\* the fragment RETURN <q> of a literal or variable q, where a variable must be bound
\* to the result variable of the query that list holds for the declaring entry
IsReturnOf(frag, q, entries, list) ==
    /\ Len(frag) = 2
    /\ frag[1].c = "RETURN "
    /\ IF q.type = "Literal"
       THEN frag[2].k = "value" /\ frag[2].v = q.value
       ELSE \E j \in 1..Len(entries) :
              /\ entries[j].resultVariable.type = "Variable"
              /\ entries[j].resultVariable.id = q.id
              /\ frag[2].k = "resultVar"
              /\ frag[2].v.n = list[j].resultVar.id

\* C1: lowering WithPreExecution(e1..en, resultNode) appends exactly one query per
\* entry in declared order; the query of ei resolves the result variables of
\* e1..e(i-1) and neither its own nor a later one; the result node resolves the
\* result variables of all entries.
C1_PreExecOrder ==
    (Done /\ IsPlainPreExec(node)) =>
        LET entries == node.preExecQueries
            list == MainPreExecQueries
        IN  /\ result.ok = ScopedInDeclaredOrder(node)
            /\ ~result.ok => result.err = "used but not introduced"
            /\ result.ok =>
                  /\ Len(list) = Len(entries)
                  /\ \A i \in 1..Len(entries) :
                        /\ IsReturnOf(list[i].aqlQuery, entries[i].query, entries, list)
                        /\ list[i].resultVar.isResult
                              = (entries[i].resultVariable.type = "Variable")
                  /\ \A i, j \in 1..Len(entries) :
                        (i /= j /\ list[i].resultVar.isResult /\ list[j].resultVar.isResult)
                            => list[i].resultVar.id /= list[j].resultVar.id
                  /\ IsReturnOf(result.cq.aqlQuery, node.resultNode, entries, list)

C1_Witness ==
    /\ Done
    /\ result.ok
    /\ node = WithPreExecutionQueryNode(
                  << PreExecQueryParms(EntryLiteral(1), ResultVariable(1)),
                     PreExecQueryParms(ResultVariable(1), ResultVariable(2)) >>,
                  ResultVariable(2))
    /\ Len(MainPreExecQueries) = 2


\* the sub-trees of a node, in the order of the tree
ChildNodes(n) ==
    CASE n.type = "Object" -> [i \in 1..Len(n.properties) |-> n.properties[i].valueNode]
      [] n.type = "List" -> n.itemNodes
      [] n.type \in {"Field", "RootEntityID"} -> << n.objectNode >>
      [] n.type = "VariableAssignment" -> << n.variableValueNode, n.resultNode >>
      [] n.type = "WithPreExecution" ->
            [i \in 1..Len(n.preExecQueries) |-> n.preExecQueries[i].query]
                \o << n.resultNode >>
      [] n.type = "EntityFromId" -> << n.idNode >>
      [] n.type = "FollowEdge" -> << n.sourceEntityNode >>
      [] n.type = "TransformList" ->
            << n.listNode, n.filterNode >>
                \o [i \in 1..Len(n.orderBy) |-> n.orderBy[i].valueNode]
                \o << n.innerNode >>
      [] n.type \in {"Count", "FirstOfList", "DeleteEntities"} -> << n.listNode >>
      [] n.type = "BinaryOperation" -> << n.lhs, n.rhs >>
      [] n.type \in {"UnaryOperation", "TypeCheck"} -> << n.valueNode >>
      [] n.type = "Conditional" -> << n.condition, n.expr1, n.expr2 >>
      [] n.type = "SafeList" -> << n.sourceNode >>
      [] n.type = "QuantifierFilter" -> << n.listNode, n.conditionNode >>
      [] n.type = "QuickSearch" -> << n.qsFilterNode >>
      [] n.type = "CreateEntity" -> << n.objectNode >>
      [] n.type = "UpdateEntities" ->
            << n.listNode >> \o [i \in 1..Len(n.updates) |-> n.updates[i].valueNode]
      [] OTHER -> <<>>

\* the tree n holds a reference to the variable with the given id
RECURSIVE Mentions(_, _)
Mentions(n, id) ==
    \/ n.type = "Variable" /\ n.id = id
    \/ \E i \in DOMAIN ChildNodes(n) : Mentions(ChildNodes(n)[i], id)

\* the transient fragment variables (not query-result variables) a fragment uses
TransientVarsOf(frag) == { frag[i].v.n : i \in { j \in DOMAIN frag : frag[j].k = "var" } }

\* C2: a pre-execution query registered in the scope of a transient variable v (the
\* item of a TransformList or QuickSearch, an assigned variable, the current entity of
\* an UpdateEntities) is compiled without v: a query that refers to v fails with
\* "used but not introduced" for v, and the fragment of a compiled pre-execution
\* query shares no transient fragment variable with the query around it.
C2_PreExecIsolation ==
    \A kind \in ScopeKinds, q \in ScopedQueries(TransientVariable),
       rv \in ScopedResultVariables, resultNode \in ScopedResultNodes(TransientVariable) :
        (Done /\ node = InScopeOf(kind, TransientVariable, ScopedPreExec(q, rv, resultNode)))
            => /\ Mentions(q, TransientVariable.id) =>
                     /\ ~result.ok
                     /\ result.err = "used but not introduced"
                     /\ result.arg = TransientVariable.label
               /\ (~Mentions(q, TransientVariable.id)
                     /\ (resultNode = ResultVariable(1) => rv = ResultVariable(1)))
                     => result.ok
               /\ result.ok =>
                     /\ Len(MainPreExecQueries) = 1
                     /\ TransientVarsOf(result.cq.aqlQuery) /= {}
                     /\ TransientVarsOf(MainPreExecQueries[1].aqlQuery)
                            \cap TransientVarsOf(result.cq.aqlQuery) = {}

C2_Witness ==
    /\ Done
    /\ node = InScopeOf("TransformList.inner", TransientVariable,
                  ScopedPreExec(FieldQueryNode(TransientVariable, items, <<>>),
                                ResultVariable(1), ResultVariable(1)))
    /\ ~result.ok
    /\ result.err = "used but not introduced"


\* the fragment RETURN <v> for the result variable of a compiled pre-execution query
ReturnsResultOf(frag, query) ==
    /\ Len(frag) = 2
    /\ frag[1].c = "RETURN "
    /\ frag[2].k = "resultVar"
    /\ frag[2].v.n = query.resultVar.id

CollectionOf(n) ==
    IF n.type \in {"AddEdges", "RemoveEdges", "SetEdge", "FollowEdge"}
    THEN getCollectionNameForRelation(n.relation)
    ELSE getCollectionNameForRootEntity(n.rootEntityType)

\* the collections of the nodes of the given types in the tree n
RECURSIVE AccessedBy(_, _)
AccessedBy(n, types) ==
    (IF n.type \in types THEN {CollectionOf(n)} ELSE {})
        \cup UNION { AccessedBy(ChildNodes(n)[i], types) : i \in DOMAIN ChildNodes(n) }

ReadingTypes == {"Entities", "EntityFromId"}
WritingTypes ==
    {"CreateEntity", "UpdateEntities", "DeleteEntities", "AddEdges", "RemoveEdges", "SetEdge"}
AccessingTypes == ReadingTypes \cup WritingTypes \cup {"FollowEdge"}

\* C4: the compound query of a compilation lists the collection of every Entities
\* and EntityFromId node as read and the target collection of every CreateEntity,
\* UpdateEntities, DeleteEntities, AddEdges, RemoveEdges and SetEdge node as
\* written, for nodes of the main query and of pre-execution queries alike; a
\* collection that only CreateEntity nodes access is written and not read.
C4_CollectionTracking ==
    (Done /\ node \in AccessInputs) =>
        /\ result.ok
        /\ AccessedBy(node, ReadingTypes) \subseteq result.cq.readAccessedCollections
        /\ AccessedBy(node, WritingTypes) \subseteq result.cq.writeAccessedCollections
        /\ \A c \in AccessedBy(node, {"CreateEntity"})
                      \ AccessedBy(node, AccessingTypes \ {"CreateEntity"}) :
              /\ c \in result.cq.writeAccessedCollections
              /\ c \notin result.cq.readAccessedCollections

C4_Witness ==
    /\ Done
    /\ result.ok
    /\ node = WithPreExecutionQueryNode(
                  << PreExecQueryParms(
                         CreateEntityQueryNode("Delivery", ObjectQueryNode(<<>>)),
                         ResultVariable(1)) >>,
                  EntitiesQueryNode("HandlingUnit"))
    /\ result.cq.writeAccessedCollections = {getCollectionNameForRootEntity("Delivery")}
    /\ result.cq.readAccessedCollections = {getCollectionNameForRootEntity("HandlingUnit")}


\* the variable map of the context that received the last call, in the heap H
ReceiverMap(H) == H.vm[contexts[last.receiver].variableMap]

\* the ids of the fragment variables that the Maps and compound queries of H hold
FragmentVariablesOf(H) ==
    UNION { { H.vm[m][id].id : id \in DOMAIN H.vm[m] } : m \in DOMAIN H.vm }
        \cup UNION { { H.pre[l][i].resultVar.id : i \in DOMAIN H.pre[l] } : l \in DOMAIN H.pre }

\* C5: introduceVariable(v) fails with "introduced twice" exactly when the receiving
\* context maps v, as does addPreExecuteQuery with v as result variable; getVariable(v)
\* fails with "used but not introduced" exactly when the context does not map v.
\* Otherwise introduceVariable returns a context that maps v to a fresh fragment
\* variable next to the mappings of the receiver, and getVariable returns the
\* fragment variable bound for v.  A failed call leaves the map of the receiver as
\* it was.
C5_VariableErrors ==
    LET v == last.variable
        mapBefore == ReceiverMap(last.before)
    IN  /\ last.op = "introduceVariable" =>
              /\ last.ok = (v.id \notin DOMAIN mapBefore)
              /\ ~last.ok => (last.err = "introduced twice" /\ last.arg = v.label)
              /\ last.ok =>
                    LET m == heap.vm[contexts[last.returned].variableMap]
                    IN  /\ DOMAIN m = DOMAIN mapBefore \cup {v.id}
                        /\ \A id \in DOMAIN mapBefore : m[id] = mapBefore[id]
                        /\ m[v.id].id \notin FragmentVariablesOf(last.before)
                        /\ ~m[v.id].isResult
        /\ (last.op = "addPreExecuteQuery" /\ v /= NoNode /\ v.id \in DOMAIN mapBefore) =>
              /\ ~last.ok
              /\ last.err = "introduced twice"
              /\ last.arg = v.label
        /\ last.op = "getVariable" =>
              /\ last.ok = (v.id \in DOMAIN mapBefore)
              /\ ~last.ok => (last.err = "used but not introduced" /\ last.arg = v.label)
              /\ last.ok => last.frag = aqlVariableToken(mapBefore[v.id])
        /\ (last.op /= "none" /\ ~last.ok) => ReceiverMap(heap) = mapBefore

C5_Witness ==
    /\ last.op = "introduceVariable"
    /\ ~last.ok
    /\ last.err = "introduced twice"
    /\ last.variable.id \in DOMAIN ReceiverMap(heap)


\* the ids of the transient fragment variables of a fragment, in the order of the text
RECURSIVE TransientVarSequence(_)
TransientVarSequence(frag) ==
    IF Len(frag) = 0 THEN <<>>
    ELSE (IF frag[1].k = "var" THEN << frag[1].v.n >> ELSE <<>>)
             \o TransientVarSequence(Tail(frag))

\* the references of the innermost node, given the fragment variables of a and b
UseSequence(use, a, b, va, vb) ==
    IF use = a THEN << va >>
    ELSE IF use = b THEN << vb >>
    ELSE << va, vb >>

\* C6: two distinct Variable nodes with the same label, introduced one inside the
\* scope of the other, are both introduced, are bound to two distinct fragment
\* variables, and every reference resolves to the fragment variable of its own
\* node; only the same node introduced again fails with "introduced twice".
C6_IdentityNotLabel ==
    \A kind \in TwoScopeKinds, use \in UsesOf(TransientVariable, TwinVariable) :
        /\ (Done /\ node = InTwoScopes(kind, TransientVariable, TwinVariable, use)) =>
              /\ TransientVariable.label = TwinVariable.label
              /\ result.ok
              /\ LET seq == TransientVarSequence(result.cq.aqlQuery)
                 IN  /\ Len(seq) >= 3
                     /\ seq[1] /= seq[2]
                     /\ seq = << seq[1], seq[2], seq[1] >>
                                 \o UseSequence(use, TransientVariable, TwinVariable,
                                                seq[1], seq[2])
        /\ (Done /\ node = InTwoScopes(kind, TransientVariable, TransientVariable, use)) =>
              /\ ~result.ok
              /\ result.err = "introduced twice"

C6_Witness ==
    /\ Done
    /\ result.ok
    /\ node = InTwoScopes("TransformList", TransientVariable, TwinVariable,
                  ObjectQueryNode(<< PropertySpecification(items, TransientVariable),
                                     PropertySpecification(itemNumber, TwinVariable) >>))
    /\ Len(TransientVarSequence(result.cq.aqlQuery)) = 5


\* a fragment without the indentation of its tokens
Unindented(frag) == [i \in DOMAIN frag |-> [frag[i] EXCEPT !.ind = 0]]

\* the positions at which a LIMIT clause starts
LimitPositions(frag) == { i \in DOMAIN frag : frag[i].k = "code" /\ frag[i].c = "LIMIT " }

IsLineBreak(token) == token.k = "code" /\ token.c = "\n"

\* the clause the LIMIT matrix gives for skip and maxCount
LimitOf(skip, maxCount) ==
    IF maxCount /= <<>> /\ skip = 0
    THEN << [k |-> "code", c |-> "LIMIT ", v |-> NoValue, ind |-> 0],
            [k |-> "value", c |-> "", v |-> NumberValue(maxCount[1]), ind |-> 0] >>
    ELSE IF skip > 0
    THEN << [k |-> "code", c |-> "LIMIT ", v |-> NoValue, ind |-> 0],
            [k |-> "value", c |-> "", v |-> NumberValue(skip), ind |-> 0],
            [k |-> "code", c |-> ", ", v |-> NoValue, ind |-> 0],
            [k |-> "value", c |-> "",
             v |-> IF maxCount /= <<>> THEN NumberValue(maxCount[1]) ELSE MAX_SAFE_INTEGER,
             ind |-> 0] >>
    ELSE <<>>

\* C7: the LIMIT line of a lowered TransformList depends on skip and maxCount only:
\* LIMIT maxCount for skip = 0 and maxCount set (also maxCount = 0), LIMIT skip,
\* maxCount for skip > 0 and maxCount set, LIMIT skip, MAX_SAFE_INTEGER for skip > 0
\* and maxCount unset, and no LIMIT for skip = 0 and maxCount unset.
C7_LimitMatrix ==
    (Done /\ node \in LimitInputs) =>
        LET frag == result.cq.aqlQuery
            expected == LimitOf(node.skip, node.maxCount)
        IN  /\ result.ok
            /\ IF expected = <<>> THEN LimitPositions(frag) = {}
               ELSE \E i \in DOMAIN frag :
                      /\ LimitPositions(frag) = {i}
                      /\ IsLineBreak(frag[i - 1])
                      /\ Unindented(SubSeq(frag, i, i + Len(expected) - 1)) = expected
                      /\ IsLineBreak(frag[i + Len(expected)])

C7_Witness ==
    /\ Done
    /\ result.ok
    /\ node \in LimitInputs
    /\ node.skip = 0
    /\ node.maxCount = << 0 >>
    /\ LimitPositions(result.cq.aqlQuery) /= {}


\* a fragment with its fragment variables renamed to 1, 2, .. in the order of their
\* first occurrence
VariablePositions(frag) == { i \in DOMAIN frag : frag[i].k \in {"var", "resultVar"} }

FirstPosition(frag, id) ==
    CHOOSE p \in VariablePositions(frag) :
        /\ frag[p].v.n = id
        /\ \A q \in VariablePositions(frag) : frag[q].v.n = id => p <= q

RankOf(frag, id) ==
    Cardinality({ frag[j].v.n :
                    j \in { p \in VariablePositions(frag) : p <= FirstPosition(frag, id) } })

Renamed(frag) ==
    [i \in DOMAIN frag |->
        IF i \in VariablePositions(frag)
        THEN [frag[i] EXCEPT !.v = NumberValue(RankOf(frag, frag[i].v.n))]
        ELSE frag[i]]

\* a transient fragment variable with a label, for the text of an expected fragment
VarToken(id, label) == << [k |-> "var", c |-> label, v |-> NumberValue(id), ind |-> 0] >>

\* FIRST(FOR item IN <list> COLLECT WITH COUNT INTO count RETURN count); the
\* keywords of the query language are case-insensitive
CountSubquery(list, returnKeyword) ==
    aqlCode("FIRST")
        \o aqlLines(<< aqlCode("("),
               aqlIndent(aqlLines(
                   << aqlCode("FOR ") \o VarToken(-1, "item"),
                      aqlCode("IN ") \o list,
                      aqlCode("COLLECT WITH COUNT INTO ") \o VarToken(-2, "count"),
                      aqlCode(returnKeyword) \o VarToken(-2, "count") >>)),
               aqlCode(")") >>)

\* C8: Count(list) lowers to LENGTH(<list>) exactly when list is a Field or an
\* Entities node and to FIRST(FOR item IN <list> COLLECT WITH COUNT INTO count
\* RETURN count) otherwise, where <list> is the fragment of the list in the context
\* of the Count node, and the list is lowered once: the pre-execution queries, the
\* accessed collections and (but for item and count) the fresh fragment variables
\* are those of lowering the list alone.
C8_CountForms ==
    \A kind \in ContextKinds : \A l \in ListsIn(kind) :
        (Done /\ node = InContextOf(kind, CountQueryNode(l))) =>
            LET alone == getAQLQuery(InContextOf(kind, l), aqlConfig)
                list == Tail(alone.cq.aqlQuery)
                counted == Tail(result.cq.aqlQuery)
                fast == l.type \in {"Field", "Entities"}
            IN  /\ result.ok = alone.ok
                /\ ~result.ok => (result.err = alone.err /\ result.arg = alone.arg)
                /\ result.ok =>
                      /\ fast => counted = aqlCode("LENGTH(") \o list \o aqlCode(")")
                      /\ ~fast =>
                            \E returnKeyword \in {"RETURN ", "return "} :
                                Renamed(counted) = Renamed(CountSubquery(list, returnKeyword))
                      /\ result.H.nextVar = alone.H.nextVar + (IF fast THEN 0 ELSE 2)
                      /\ Len(MainPreExecQueries) = Len(alone.H.pre[alone.cq.preExecQueries])
                      /\ result.cq.readAccessedCollections = alone.cq.readAccessedCollections
                      /\ result.cq.writeAccessedCollections
                            = alone.cq.writeAccessedCollections

C8_Witness ==
    /\ Done
    /\ result.ok
    /\ node = InContextOf("r1", CountQueryNode(FieldQueryNode(ResultVariable(1), items, <<>>)))
    /\ result.cq.aqlQuery[2] = aqlCode("LENGTH(")[1]


\* (a) the list is a Field access, optionally wrapped in SafeList
IsFieldList(listNode) ==
    \/ listNode.type = "Field"
    \/ listNode.type = "SafeList" /\ listNode.sourceNode.type = "Field"

\* (b) the condition is EQUAL, or LIKE with a literal string rhs that has no wildcard
\* and no character with distinct upper and lower case
IsEqualityCondition(c) ==
    /\ c.type = "BinaryOperation"
    /\ \/ c.operator = "EQUAL"
       \/ /\ c.operator = "LIKE"
          /\ c.rhs.type = "Literal"
          /\ c.rhs.value.ty = "string"
          /\ \A i \in DOMAIN c.rhs.value.s :
                c.rhs.value.s[i] \notin {"%", "_"} \cup LowerCaseLetters \cup UpperCaseLetters

\* (c) n is a chain of one or more Field accesses that ends at the item variable
RECURSIVE IsFieldChainOn(_, _)
IsFieldChainOn(n, itemVariable) ==
    /\ n.type = "Field"
    /\ \/ n.objectNode = itemVariable
       \/ IsFieldChainOn(n.objectNode, itemVariable)

ArrayExpansionApplies(q) ==
    /\ q.quantifier = "some"
    /\ IsFieldList(q.listNode)
    /\ IsEqualityCondition(simplifyBooleans(q.conditionNode))
    /\ IsFieldChainOn(simplifyBooleans(q.conditionNode).lhs, q.itemVariable)

\* the node BinaryOp(Count(TransformList{list, itemVariable, filter = c}), op, 0)
CountBased(q) ==
    BinaryOperationQueryNode(
        CountQueryNode(
            TransformListQueryNode(q.listNode, q.itemVariable,
                IF q.quantifier = "every" THEN not(q.conditionNode) ELSE q.conditionNode,
                <<>>, 0, <<>>, q.itemVariable)),
        IF q.quantifier = "some" THEN "GREATER_THAN" ELSE "EQUAL",
        LiteralQueryNode(NumberValue(0)))

\* C9: where the array expansion does not apply (always for 'every' and 'none'), a
\* QuantifierFilter lowers exactly as BinaryOp(Count(TransformList{list, itemVariable,
\* filter = c}), op, Literal(0)) does, with (c, op) = (cond, GREATER_THAN) for 'some',
\* (cond, EQUAL) for 'none' and (NOT cond, EQUAL) for 'every'.
C9_CountBasedQuantifier ==
    \A quantifier \in Quantifiers, listNode \in QuantifiedLists,
       conditionNode \in ItemConditions :
        LET q == QuantifierFilterNode(quantifier, listNode, TransientVariable, conditionNode)
        IN  (Done /\ node = InContextOf("r1", q) /\ ~ArrayExpansionApplies(q)) =>
                result = getAQLQuery(InContextOf("r1", CountBased(q)), aqlConfig)

C9_Witness ==
    /\ Done
    /\ result.ok
    /\ node = InContextOf("r1",
                  QuantifierFilterNode("every",
                      FieldQueryNode(ResultVariable(1), items, <<>>), TransientVariable,
                      BinaryOperationQueryNode(ItemField, "EQUAL", EntryLiteral(1))))
    /\ \E i \in DOMAIN result.cq.aqlQuery : result.cq.aqlQuery[i].c = "COLLECT WITH COUNT INTO "


\* the names of the complete access chain of n, from the item variable outwards
RECURSIVE CompleteChain(_, _)
CompleteChain(n, itemVariable) ==
    IF n = itemVariable THEN <<>>
    ELSE CompleteChain(n.objectNode, itemVariable) \o n.path \o << n.field >>

\* the fragment of a node lowered in the scope of r1
FragmentInScope(n) == Tail(getAQLQuery(InContextOf("r1", n), aqlConfig).cq.aqlQuery)

\* value IN list[*].path.to.field
ArrayExpansion(q) ==
    LET c == simplifyBooleans(q.conditionNode)
        chain == CompleteChain(c.lhs, q.itemVariable)
        listNode == IF q.listNode.type = "SafeList" THEN q.listNode.sourceNode
                    ELSE q.listNode
    IN  FragmentInScope(c.rhs) \o aqlCode(" IN ") \o FragmentInScope(listNode)
            \o aqlCode("[*]")
            \o aqlConcat([i \in DOMAIN chain |-> getFieldAccessFragment(chain[i])])

\* C10: for 'some', the array expansion value IN list[*].path.to.field, with the
\* complete field chain of the lhs and no FOR loop, is emitted exactly when (a) the
\* list is a Field access, optionally in SafeList, (b) the simplified condition is
\* EQUAL or a LIKE with an entirely literal, case-insensitive literal pattern and
\* (c) its lhs is a chain of Field accesses ending at itemVariable; in every other
\* case the count-based lowering is used.
C10_ArrayExpansionExactly ==
    \A listNode \in QuantifiedLists, conditionNode \in ItemConditions :
        LET q == QuantifierFilterNode("some", listNode, TransientVariable, conditionNode)
        IN  (Done /\ node = InContextOf("r1", q)) =>
                IF ArrayExpansionApplies(q)
                THEN /\ result.ok
                     /\ Tail(result.cq.aqlQuery) = ArrayExpansion(q)
                     /\ \A i \in DOMAIN result.cq.aqlQuery :
                           result.cq.aqlQuery[i].c /= "FOR "
                ELSE result = getAQLQuery(InContextOf("r1", CountBased(q)), aqlConfig)

\* a fragment with every run of adjacent pieces of query text joined into one piece
RECURSIVE Flatten(_)
Flatten(frag) ==
    IF Len(frag) <= 1 THEN frag
    ELSE LET rest == Flatten(Tail(frag))
         IN  IF frag[1].k = "code" /\ rest[1].k = "code" /\ frag[1].ind = rest[1].ind
             THEN << [frag[1] EXCEPT !.c = @ \o rest[1].c] >> \o Tail(rest)
             ELSE << frag[1] >> \o rest

\* a string bound as a value
Bound(str) == aqlValue(StringValue(str))

HasWildcard(str) == \E i \in DOMAIN str : str[i] \in {"%", "_"}

\* the characters of a pattern before its first wildcard
LiteralPrefixOf(str) ==
    SubSeq(str, 1, Cardinality({ i \in DOMAIN str :
                                   \A j \in 1..i : str[j] \notin {"%", "_"} }))

\* a literal prefix followed by % only
IsSimplePrefix(str) ==
    /\ Len(str) > 0
    /\ str[Len(str)] = "%"
    /\ ~HasWildcard(SubSeq(str, 1, Len(str) - 1))

\* fastStartsWith(lhs, prefix)
FastRange(L, prefix) ==
    IF prefix = <<>> THEN aqlCode("IS_STRING(") \o L \o aqlCode(")")
    ELSE aqlCode("(") \o L \o aqlCode(" >= UPPER(") \o Bound(prefix) \o aqlCode(") && ")
             \o L \o aqlCode(" < LOWER(") \o Bound(prefix \o << "U+10FFFF" >>)
             \o aqlCode("))")

\* equalsIgnoreCase(lhs, value)
EqualsIgnoreCase(L, value) ==
    IF \A i \in DOMAIN value : value[i] \notin LowerCaseLetters \cup UpperCaseLetters
    THEN aqlCode("(") \o L \o aqlCode(" == ") \o Bound(value) \o aqlCode(")")
    ELSE aqlCode("(") \o L \o aqlCode(" >= UPPER(") \o Bound(value) \o aqlCode(") && ")
             \o L \o aqlCode(" <= LOWER(") \o Bound(value) \o aqlCode("))")

SlowLike(L, R) == aqlCode("LIKE(") \o L \o aqlCode(", ") \o R \o aqlCode(", true)")

CallsLike(frag) == \E i \in DOMAIN frag : frag[i].k = "code" /\ frag[i].c = "LIKE("

\* C11: BinaryOp(LIKE, lhs, rhs) lowers by exactly one of four cases: LIKE(lhs, rhs,
\* true) when rhs is no literal string; the equals-ignore-case query on the literal
\* for a pattern without wildcards; the fast range query over the prefix alone for a
\* literal prefix followed by % only; the conjunction of the fast range query over
\* the literal prefix and LIKE(lhs, rhs, true) for any other literal pattern.  The
\* second and the third case call no LIKE.
C11_LikeCases ==
    \A lhs \in LeftOperands, rhs \in RightOperands :
        (Done /\ node = InContextOf("r1", BinaryOperationQueryNode(lhs, "LIKE", rhs))) =>
            LET L == FragmentInScope(lhs)
                R == FragmentInScope(rhs)
                out == Tail(result.cq.aqlQuery)
                pattern == rhs.value.s
                expected ==
                    IF ~(rhs.type = "Literal" /\ rhs.value.ty = "string") THEN SlowLike(L, R)
                    ELSE IF ~HasWildcard(pattern) THEN EqualsIgnoreCase(L, pattern)
                    ELSE IF IsSimplePrefix(pattern)
                    THEN FastRange(L, LiteralPrefixOf(pattern))
                    ELSE aqlCode("(") \o FastRange(L, LiteralPrefixOf(pattern))
                             \o aqlCode(" && ") \o SlowLike(L, R) \o aqlCode(")")
            IN  /\ result.ok
                /\ Flatten(out) = Flatten(expected)
                /\ (rhs.type = "Literal" /\ rhs.value.ty = "string"
                        /\ (~HasWildcard(pattern) \/ IsSimplePrefix(pattern)))
                       => ~CallsLike(out)

C11_Witness ==
    /\ Done
    /\ result.ok
    /\ node = InContextOf("r1",
                  BinaryOperationQueryNode(FieldQueryNode(ResultVariable(1), itemNumber, <<>>),
                      "LIKE", StringLiteral(<< "a", "%", "b" >>)))
    /\ CallsLike(result.cq.aqlQuery)
    /\ \E i \in DOMAIN result.cq.aqlQuery :
           result.cq.aqlQuery[i] = Bound(<< "a", "U+10FFFF" >>)[1]

\* the case-sensitive check of STARTS_WITH
LeftCheck(L, R) ==
    aqlCode("(LEFT(") \o L \o aqlCode(", LENGTH(") \o R \o aqlCode(")) == ") \o R
        \o aqlCode(")")

\* frag ends with part
EndsWith(frag, part) ==
    /\ Len(frag) >= Len(part)
    /\ SubSeq(frag, Len(frag) - Len(part) + 1, Len(frag)) = part

\* C12: BinaryOp(STARTS_WITH, lhs, rhs) always contains the case-sensitive check
\* (LEFT(lhs, LENGTH(rhs)) == rhs); for a literal string rhs it is conjoined with
\* fastStartsWith(lhs, rhs), which is IS_STRING(lhs) for the empty prefix and
\* (lhs >= UPPER(prefix) && lhs < LOWER(prefix + U+10FFFF)) otherwise, the prefix
\* being the whole literal; for any other rhs the check is the whole fragment.
C12_StartsWith ==
    \A lhs \in LeftOperands, rhs \in RightOperands :
        (Done /\ node = InContextOf("r1", BinaryOperationQueryNode(lhs, "STARTS_WITH", rhs)))
            => LET L == FragmentInScope(lhs)
                   R == FragmentInScope(rhs)
                   out == Tail(result.cq.aqlQuery)
               IN  /\ result.ok
                   /\ EndsWith(out, LeftCheck(L, R))
                   /\ IF rhs.type = "Literal" /\ rhs.value.ty = "string"
                      THEN Flatten(out)
                               = Flatten(FastRange(L, rhs.value.s) \o aqlCode(" && ")
                                             \o LeftCheck(L, R))
                      ELSE Flatten(out) = Flatten(LeftCheck(L, R))

C12_Witness ==
    /\ Done
    /\ result.ok
    /\ node = InContextOf("r1",
                  BinaryOperationQueryNode(ResultVariable(1), "STARTS_WITH",
                                           StringLiteral(<<>>)))
    /\ result.cq.aqlQuery[2] = aqlCode("IS_STRING(")[1]
    /\ \E i \in DOMAIN result.cq.aqlQuery : result.cq.aqlQuery[i].c = "(LEFT("

\* the fragments of a compilation: the main query and every pre-execution query
EmittedFragments ==
    {result.cq.aqlQuery}
        \cup UNION { { result.H.pre[k][j].aqlQuery : j \in DOMAIN result.H.pre[k] } :
                       k \in DOMAIN result.H.pre }

\* [A-Za-z_][A-Za-z0-9_]*
MatchesIdentifier(str) ==
    /\ Len(str) > 0
    /\ str[1] \in LowerCaseLetters \cup UpperCaseLetters \cup {"_"}
    /\ \A i \in DOMAIN str :
          str[i] \in LowerCaseLetters \cup UpperCaseLetters \cup Digits \cup {"_"}

Contains(str, part) ==
    \E k \in 0..(Len(str) - Len(part)) : SubSeq(str, k + 1, k + Len(part)) = part

\* the value v holds the string part
Carries(v, part) ==
    \/ v.ty = "string" /\ Contains(v.s, part)
    \/ v.ty = "list" /\ \E j \in DOMAIN v.l : Contains(v.l[j], part)

\* pieces of the query text that are written from data: quoted strings, identifiers
IsTextFromData(token) == token.k \in {"string", "ident", "coll"}

\* the sentinel of a tree of SentinelInputs
SentinelOf(n) == IF n \in SentinelNodes(Sentinel) THEN Sentinel ELSE DigitSentinel

\* the only tree of SentinelNodes(s) that does not compile: s as a path segment
HasUnsafePath(n, s) == n = InContextOf("r1", FieldQueryNode(ResultVariable(1), items, << s >>))

\* C13: in every fragment of every compilation, whatever is written into the query
\* text from data (a quoted string, an identifier) matches [A-Za-z_][A-Za-z0-9_]*; a
\* string that is no safe identifier, be it a Literal value, a RuntimeError message,
\* an object key or a field name, is never part of the query text, and on each
\* lowering path that emits it (the Literal and RuntimeError handlers, the string
\* operators, the array expansion, the edge ids, objects and field accesses) it is
\* part of a bound value.
C13_ParameterSafety ==
    Done =>
        /\ \A frag \in EmittedFragments : \A i \in DOMAIN frag :
              IsTextFromData(frag[i]) =>
                  /\ MatchesIdentifier(frag[i].v.s)
                  /\ ~Contains(frag[i].v.s, Sentinel)
                  /\ ~Contains(frag[i].v.s, DigitSentinel)
        /\ node \in SentinelInputs =>
              /\ result.ok <=> ~HasUnsafePath(node, SentinelOf(node))
              /\ result.ok =>
                    \E frag \in EmittedFragments : \E i \in DOMAIN frag :
                        frag[i].k = "value" /\ Carries(frag[i].v, SentinelOf(node))

C13_Witness ==
    /\ Done
    /\ result.ok
    /\ node = RemoveEdgesQueryNode("Delivery_handlingUnits",
                  EdgeFilter(NoNode, LiteralQueryNode(StringListValue(<< Sentinel >>))))
    /\ \E i \in DOMAIN result.cq.aqlQuery :
           /\ result.cq.aqlQuery[i].k = "value"
           /\ result.cq.aqlQuery[i].v
                  = StringListValue(<< getCollectionNameForRootEntity("HandlingUnit")
                                           \o << "/" >> \o Sentinel >>)

\* the access to one name: .name for a safe identifier, [<bound name>] otherwise
AccessTo(name) ==
    IF MatchesIdentifier(name) THEN aqlCode(".") \o aqlIdentifierToken(name)
    ELSE aqlCode("[") \o Bound(name) \o aqlCode("]")

\* C14: Field(object, field, path) lowers to the object fragment followed by one
\* access per path segment in order and then the access to the field; a name that is
\* a safe identifier is written unquoted after a dot, any other name is bound as a
\* bracketed string key, in the path as well as for the field.
C14_FieldAccess ==
    \A object \in FieldObjects, field \in FieldNames, path \in FieldPaths :
        (Done /\ node = InContextOf("r1", FieldQueryNode(object, field, path))) =>
            /\ result.ok
            /\ Tail(result.cq.aqlQuery)
                   = FragmentInScope(object)
                         \o aqlConcat([i \in DOMAIN path |-> AccessTo(path[i])])
                         \o AccessTo(field)

\* text_<lowercased language>, identity without a language
AnalyzerOf(language) ==
    IF language = <<>> THEN << "i", "d", "e", "n", "t", "i", "t", "y" >>
    ELSE << "t", "e", "x", "t", "_" >>
             \o [i \in DOMAIN language |->
                    CASE language[i] = "C" -> "c" [] language[i] = "A" -> "a"
                      [] OTHER -> language[i]]

\* the predicate of an operator on the fragments L and R: ANALYZER(<predicate>,
\* <analyzer>) for the language-aware operators
SearchText(operator, L, R, analyzer) ==
    CASE operator = "QUICKSEARCH_CONTAINS_ANY_WORD" ->
            aqlCode("ANALYZER( ") \o L \o aqlCode(" IN TOKENS(") \o R \o aqlCode(", ")
                \o analyzer \o aqlCode("),") \o analyzer \o aqlCode(")")
      [] operator = "QUICKSEARCH_CONTAINS_PREFIX" ->
            aqlCode("ANALYZER( STARTS_WITH( ") \o L \o aqlCode(", TOKENS(") \o R
                \o aqlCode(")[0]), ") \o analyzer \o aqlCode(")")
      [] operator = "QUICKSEARCH_CONTAINS_PHRASE" ->
            aqlCode("ANALYZER( PHRASE( ") \o L \o aqlCode(", ") \o R \o aqlCode("), ")
                \o analyzer \o aqlCode(")")

\* C15: OperatorWithLanguage lowers to a search predicate wrapped in ANALYZER(..,
\* <analyzer>) with the analyzer text_<lowercased language> for
\* QUICKSEARCH_CONTAINS_ANY_WORD, QUICKSEARCH_CONTAINS_PREFIX and
\* QUICKSEARCH_CONTAINS_PHRASE; QUICKSEARCH_STARTS_WITH uses the identity analyzer
\* (the plain predicate, or the predicate wrapped with the identity analyzer) and never
\* a text analyzer; the analyzer of a language is the one the search view registers
\* for a full-text field of that language.
C15_Analyzers ==
    \A operator \in SearchOperators, language \in SearchLanguages :
        (Done /\ node = InContextOf("r1", SearchPredicate(ResultVariable(1), operator,
                                                           language))) =>
            LET L == FragmentInScope(FieldQueryNode(ResultVariable(1), items, <<>>))
                R == Bound(<< "a", "b" >>)
                out == Tail(result.cq.aqlQuery)
                plain == aqlCode("STARTS_WITH(") \o L \o aqlCode(",") \o R \o aqlCode(")")
            IN  /\ result.ok
                /\ AnalyzerOf(language) = getAnalyzerFromFlexSearchLanguage(language)
                /\ IF operator = "QUICKSEARCH_STARTS_WITH"
                   THEN \/ Flatten(out) = Flatten(plain)
                        \/ Flatten(out)
                               = Flatten(aqlCode("ANALYZER( ") \o plain \o aqlCode(", ")
                                             \o Bound(AnalyzerOf(<<>>)) \o aqlCode(")"))
                   ELSE Flatten(out)
                            = Flatten(SearchText(operator, L, R, Bound(AnalyzerOf(language))))

\* What a compilation allocates on a heap that holds the objects of earlier
\* compilations, told from what it allocates on an empty heap: the same objects,
\* placed behind the earlier ones
ShiftVariable(aqlVar, before) ==
    IF aqlVar.id = 0 THEN aqlVar ELSE [aqlVar EXCEPT !.id = @ + before.nextVar - 1]

ShiftFragment(frag, before) ==
    [i \in DOMAIN frag |->
        IF frag[i].k \in {"var", "resultVar"}
        THEN [frag[i] EXCEPT !.v = NumberValue(@.n + before.nextVar - 1)]
        ELSE frag[i]]

ShiftQuery(cq, before) ==
    [cq EXCEPT !.preExecQueries = IF @ = 0 THEN 0 ELSE @ + Len(before.pre),
               !.aqlQuery = ShiftFragment(@, before),
               !.resultVar = ShiftVariable(@, before)]

ShiftHeap(alone, before) ==
    [vm |-> before.vm
              \o [i \in DOMAIN alone.vm |->
                    [id \in DOMAIN alone.vm[i] |-> ShiftVariable(alone.vm[i][id], before)]],
     pre |-> before.pre
               \o [i \in DOMAIN alone.pre |->
                     [j \in DOMAIN alone.pre[i] |-> ShiftQuery(alone.pre[i][j], before)]],
     rd |-> before.rd \o alone.rd,
     wr |-> before.wr \o alone.wr,
     nextVar |-> before.nextVar + alone.nextVar - 1,
     aqlConfig |-> before.aqlConfig]

\* C16: every compilation of a process returns what a compilation of the same tree
\* returns in a process that has compiled nothing before, up to the identities of the
\* freshly allocated variables, Maps, arrays and Sets: the same outcome (the compound
\* query or the error), the same fragment with the same values at the same positions,
\* the same pre-execution queries in the same order, the same read and write
\* collection sets; and it leaves the objects of the earlier compilations untouched.
C16_Determinism ==
    (pc = "session" /\ Len(compiled) > 0) =>
        LET same(alone, before) ==
                /\ result.ok = alone.ok
                /\ result.err = alone.err
                /\ result.arg = alone.arg
                /\ result.cq = ShiftQuery(alone.cq, before)
                /\ result.cq.readAccessedCollections = alone.cq.readAccessedCollections
                /\ result.cq.writeAccessedCollections = alone.cq.writeAccessedCollections
                /\ result.H = ShiftHeap(alone.H, before)
                /\ heap = result.H
        IN  same(getAQLQuery(node, aqlConfig), last.before)

\* the second compilation of a tree that registers pre-execution queries, after a
\* first one of the same tree that left variables and queries on the heap
C16_Witness ==
    /\ pc = "session"
    /\ Len(compiled) = 2
    /\ compiled[1] = compiled[2]
    /\ result.ok
    /\ Len(result.H.pre[result.cq.preExecQueries]) = 2
    /\ last.before.nextVar > 1
    /\ Len(last.before.pre) > 0

\* the node that is the whole tree or the result node in the scope of r1
ResultNodeOf(n) == IF n.type = "WithPreExecution" THEN n.resultNode ELSE n

BinaryOperators ==
    {"AND", "OR", "EQUAL", "UNEQUAL", "LESS_THAN", "LESS_THAN_OR_EQUAL", "GREATER_THAN",
     "GREATER_THAN_OR_EQUAL", "IN", "ADD", "SUBTRACT", "MULTIPLY", "DIVIDE", "MODULO",
     "CONTAINS", "STARTS_WITH", "ENDS_WITH", "LIKE", "APPEND", "PREPEND"}

\* the error a compilation must end with when it lowers the node x
ExpectedError(x) ==
    CASE x.type = "Unregistered" -> << "Unsupported query type", x.type >>
      [] x.type = "BinaryOperation" /\ x.operator \notin BinaryOperators ->
            << "Unsupported binary operator", x.operator >>
      [] x.type = "UnaryOperation" /\ x.operator \notin {"NOT", "JSON_STRINGIFY"} ->
            << "Unsupported unary operator", x.operator >>
      [] x.type = "OperatorWithLanguage" /\ x.operator \notin SearchOperators ->
            << "Unsupported ternary operator", x.operator >>
      [] OTHER -> << "", "" >>

\* C17: a compilation that lowers a node of a class without a processor, or a
\* BinaryOp, UnaryOp or OperatorWithLanguage with an operator that has no case, fails
\* with the error of that kind, the error names the node type or the operator, and no
\* compound query is returned.
C17_ErrorsNameTheirCause ==
    (Done /\ node \in UnsupportedInputs /\ ExpectedError(ResultNodeOf(node))[1] /= "") =>
        /\ ~result.ok
        /\ result.cq = NoQuery
        /\ << result.err, result.arg >> = ExpectedError(ResultNodeOf(node))

\* the attributes that a localization gives a non-empty value: << type, field,
\* attribute >>, the field "" for an attribute of the type itself
DefinedIn(config) ==
    UNION { { << t.name, "", a >> : a \in { b \in {"hint", "singular", "plural"} :
                                              t.conf[b] /= "" } }
              \cup UNION { { << t.name, f.name, a >> :
                               a \in { b \in {"label", "hint"} : f.conf[b] /= "" } } :
                           f \in Range(t.conf.fields) } :
            t \in Range(config.namespaceContent.types) }

SameGroup(c, d) ==
    /\ c.language = d.language
    /\ c.namespaceContent.namespacePath = d.namespaceContent.namespacePath

\* one error for every attribute of a localization that an earlier localization of
\* the same language and namespace path defines as well
DoubleDefinitions ==
    { [severity |-> "ERROR", attribute |-> key[3], field |-> key[2], type |-> key[1],
       loc |-> i] :
        << i, key >> \in
            { p \in (DOMAIN input) \X UNION { DefinedIn(input[k]) : k \in DOMAIN input } :
                /\ p[2] \in DefinedIn(input[p[1]])
                /\ \E j \in 1..(p[1] - 1) :
                       SameGroup(input[j], input[p[1]]) /\ p[2] \in DefinedIn(input[j]) } }

RECURSIVE Lines(_)
Lines(frag) ==
    IF \A i \in DOMAIN frag : ~(frag[i].k = "code" /\ frag[i].c = "\n")
    THEN << [i \in DOMAIN frag |-> [frag[i] EXCEPT !.ind = 0]] >>
    ELSE LET break == CHOOSE i \in DOMAIN frag :
                          /\ frag[i].k = "code" /\ frag[i].c = "\n"
                          /\ \A j \in 1..(i - 1) : ~(frag[j].k = "code" /\ frag[j].c = "\n")
         IN  Lines(SubSeq(frag, 1, break - 1)) \o Lines(SubSeq(frag, break + 1, Len(frag)))

StartsWith(line, keyword) == Len(line) > 0 /\ line[1] = aqlCode(keyword)[1]

\* SORT (item.f) [ DESC], (item.g) [ DESC] for clauses on fields of the item
RECURSIVE SortClauses(_, _)
SortClauses(orderBy, item) ==
    IF Len(orderBy) = 0 THEN <<>>
    ELSE << aqlCode("(") \o item \o aqlCode(".")
                \o aqlIdentifierToken(orderBy[1].valueNode.field) \o aqlCode(") ")
                \o (IF orderBy[1].direction = "DESCENDING" THEN aqlCode(" DESC") ELSE <<>>) >>
             \o SortClauses(Tail(orderBy), item)

\* C19: the block of a TransformList is ( FOR item / IN list / FILTER / FILTER item !=
\* null / SORT / LIMIT / LET of the projection / lifted LETs / RETURN ), one clause a
\* line in this order, a clause that is left out an empty line.  The FILTER line is
\* empty exactly when simplifyBooleans turns the filter into the constant true; the
\* line FILTER item != null is there exactly when the list is a FollowEdge, whose line
\* is then IN OUTBOUND / INBOUND source collection; the SORT line is there exactly
\* when orderBy has a clause and lists (expr) per clause, DESC after the descending
\* ones only; the LETs lifted from the inner node follow the LIMIT and projection
\* lines in extraction order and RETURN is the last clause.
C19_ClauseOrder ==
    (Done /\ node \in ClauseInputs) =>
        LET t == ResultNodeOf(node)
            lifted == extractVariableAssignments(t.innerNode).assignments
            k == Len(lifted)
            simplified == simplifyBooleans(t.filterNode)
            block(lines, item) ==
                /\ Len(lines) = 10 + k
                /\ lines[1] = aqlCode("(")
                /\ lines[2] = aqlCode("FOR ") \o item
                /\ item[1].k = "var"
                /\ StartsWith(lines[3], "IN ")
                /\ (lines[4] = <<>>) <=> (simplified = ConstBoolQueryNode(TRUE))
                /\ lines[4] /= <<>> => StartsWith(lines[4], "FILTER ")
                /\ IF t.listNode.type = "FollowEdge"
                   THEN /\ lines[5] = aqlCode("FILTER ") \o item \o aqlCode(" != null")
                        /\ lines[3][2] = aqlCode(IF t.listNode.isFromSide
                                                 THEN "OUTBOUND" ELSE "INBOUND")[1]
                   ELSE lines[5] = <<>>
                /\ lines[6] = IF Len(t.orderBy) = 0 THEN <<>>
                              ELSE aqlCode("SORT ")
                                       \o aqlJoin(SortClauses(t.orderBy, item), aqlCode(", "))
                /\ (lines[7] = <<>>) <=> (t.skip = 0 /\ t.maxCount = <<>>)
                /\ lines[7] /= <<>> => StartsWith(lines[7], "LIMIT ")
                /\ lines[8] /= <<>> =>
                       /\ StartsWith(lines[8], "LET ")
                       /\ lines[8][3] = aqlCode(" = DOCUMENT(")[1]
                /\ \A i \in 1..k :
                       /\ StartsWith(lines[8 + i], "LET ")
                       /\ lines[8 + i][2].k = "var"
                       /\ lines[8 + i][2].c = lifted[i].variableNode.label
                       /\ lines[8 + i][3] = aqlCode(" = ")[1]
                /\ StartsWith(lines[9 + k], "RETURN ")
                /\ lines[10 + k] = aqlCode(")")
        IN  /\ result.ok
            /\ block(Lines(Tail(result.cq.aqlQuery)),
                     SubSeq(Lines(Tail(result.cq.aqlQuery))[2], 2, 2))

\* a block with every clause: a FollowEdge list, a filter, two sort clauses, a limit
\* and two lifted LETs
C19_Witness ==
    /\ Done
    /\ node \in ClauseInputs
    /\ result.ok
    /\ ResultNodeOf(node).listNode.type = "FollowEdge"
    /\ simplifyBooleans(ResultNodeOf(node).filterNode).type = "BinaryOperation"
    /\ Len(ResultNodeOf(node).orderBy) = 2
    /\ ResultNodeOf(node).maxCount /= <<>>
    /\ Len(extractVariableAssignments(ResultNodeOf(node).innerNode).assignments) = 2
    /\ Len(Lines(Tail(result.cq.aqlQuery))) = 12

\* the position and the variable of a probe
ProbeOf(n) ==
    CHOOSE probe \in ProbePositions \X ProbeVariables : ScopeProbe(probe[1], probe[2]) = n

\* the variables that the claim makes resolvable at a position: r1 of the outer
\* scope everywhere; the item t in filter, orderBy, the lifted values and the inner
\* node; u in its own value and from then on; w in its own value and the inner node
ResolvableAt(position) ==
    CASE position \in {"list", "edgeSource", "after"} -> {ResultVariable(1)}
      [] position \in {"filter", "orderBy"} -> {ResultVariable(1), TransientVariable}
      [] position = "value1" -> {ResultVariable(1), TransientVariable, InnerVariable}
      [] position \in {"value2", "inner"} ->
            {ResultVariable(1), TransientVariable, InnerVariable, LiftedVariable}

\* C20: in a TransformList the list (and the source of a FollowEdge list) resolves
\* the variables of the outer scope only; filter and orderBy resolve these and the
\* item variable; the value of a lifted LET resolves these, the item variable and the
\* lifted variables introduced up to and including its own; the inner node resolves
\* all of them; next to the TransformList only the outer scope is left.  A reference
\* to any other variable fails the compilation with the error that names it.
C20_Scoping ==
    (Done /\ node \in ScopeProbeInputs) =>
        LET resolves(position, use) ==
                IF use \in ResolvableAt(position)
                THEN result.ok
                ELSE /\ ~result.ok
                     /\ result.err = "used but not introduced"
                     /\ result.arg = use.label
        IN  resolves(ProbeOf(node)[1], ProbeOf(node)[2])

\* a lifted variable used in the filter, with the projection indirected
C20_Witness ==
    /\ Done
    /\ node = ScopeProbe("filter", LiftedVariable)
    /\ aqlConfig.enableExperimentalProjectionIndirection
    /\ ~result.ok
    /\ result.arg = "w"

\* the fragment variables that stand for the item (label t) in a line, from a position
ItemReferences(line, from) ==
    { line[i] : i \in { j \in DOMAIN line : j >= from /\ line[j].k = "var"
                                              /\ line[j].c = TransientVariable.label } }

\* C21: the projection of a TransformList is indirected exactly when the switch is
\* on, the list is Entities(T) with T in the configured type names or no names
\* configured, the inner node is not the item variable itself and maxCount is set
\* (0 included).  Then the line after LIMIT is LET itemProj = DOCUMENT(item._id) with
\* a second fragment variable, the item in the lifted values and in RETURN is
\* itemProj, and FOR, FILTER and SORT use the loop variable.  Otherwise that line is
\* empty and every reference to the item is the loop variable.
C21_ProjectionIndirection ==
    (Done /\ node \in ProjectionInputs) =>
        LET t == ResultNodeOf(node)
            k == Len(extractVariableAssignments(t.innerNode).assignments)
            applies ==
                /\ aqlConfig.enableExperimentalProjectionIndirection
                /\ t.listNode.type = "Entities"
                /\ \/ aqlConfig.experimentalProjectionIndirectionTypeNames = <<>>
                   \/ t.listNode.rootEntityType
                          \in aqlConfig.experimentalProjectionIndirectionTypeNames[1]
                /\ t.innerNode /= t.itemVariable
                /\ t.maxCount /= <<>>
            block(lines, item) ==
                /\ Len(lines) = 10 + k
                /\ ItemReferences(lines[4], 1) = {item}
                /\ ItemReferences(lines[6], 1) = {item}
                /\ IF applies
                   THEN /\ Len(lines[8]) = 5
                        /\ lines[8] = aqlCode("LET ") \o << lines[8][2] >>
                                          \o aqlCode(" = DOCUMENT(") \o << item >>
                                          \o aqlCode("._id)")
                        /\ lines[8][2].k = "var"
                        /\ lines[8][2] /= item
                        /\ StartsWith(lines[7], "LIMIT ")
                        /\ \A i \in 1..k : ItemReferences(lines[8 + i], 3) = {lines[8][2]}
                        /\ ItemReferences(lines[9 + k], 1) = {lines[8][2]}
                   ELSE /\ lines[8] = <<>>
                        /\ \A i \in 1..k : ItemReferences(lines[8 + i], 3) = {item}
                        /\ ItemReferences(lines[9 + k], 1) = {item}
        IN  /\ result.ok
            /\ block(Lines(Tail(result.cq.aqlQuery)), Lines(Tail(result.cq.aqlQuery))[2][2])

\* an indirected projection with maxCount 0 and a lifted value that uses the item
C21_Witness ==
    /\ Done
    /\ node \in ProjectionInputs
    /\ result.ok
    /\ ResultNodeOf(node).maxCount = << 0 >>
    /\ ResultNodeOf(node).innerNode.type = "VariableAssignment"
    /\ aqlConfig.experimentalProjectionIndirectionTypeNames /= <<>>
    /\ StartsWith(Lines(Tail(result.cq.aqlQuery))[8], "LET ")

\* the lowering of a tree with every assignment in place, as FIRST(LET v = value
\* RETURN result): the tree as the result node of a WithPreExecution node, where
\* nothing is lifted
InPlace(n) == getAQLQuery(FirstPreExec(n), aqlConfig)

\* the LET lines of a query; the assignment that a reference resolves to, as the
\* label of its variable and its value (fragment variables of a value by label)
LetLines(frag) == { line \in Range(Lines(frag)) : StartsWith(line, "LET ") }

Unnumbered(frag) ==
    [i \in DOMAIN frag |->
        IF frag[i].k = "var" THEN [frag[i] EXCEPT !.v = NumberValue(0)] ELSE frag[i]]

ResolvedReferences(frag) ==
    { << frag[i].c, Unnumbered(SubSeq(line, 4, Len(line))) >> :
        << i, line >> \in
            { p \in (DOMAIN frag) \X LetLines(frag) :
                /\ frag[p[1]].k = "var"
                /\ p[2][2].v = frag[p[1]].v } }

\* C22: a tree that lowers with every assignment in place also lowers with the
\* assignments lifted to LET lines, without an 'introduced twice' or 'used but not
\* introduced' error, and every reference to a variable resolves to the assignment
\* it resolves to in place.
C22_HoistingPreserves ==
    (Done /\ node \in HoistInputs) =>
        LET preserved(inPlace) ==
                inPlace.ok =>
                    /\ result.ok
                    /\ ResolvedReferences(result.cq.aqlQuery)
                           = ResolvedReferences(inPlace.cq.aqlQuery)
        IN  preserved(InPlace(node))

\* the last call returned a context with one more variable
ReturnedNestedContext ==
    /\ last.ok
    /\ last.variable /= NoNode
    /\ last.op \in {"introduceVariable", "addPreExecuteQuery"}

\* C23: introduceVariable, and addPreExecuteQuery with a result variable, return a
\* context with a Map of its own that binds the variable; the Map of the receiving
\* context and of every other context is as before, so the variable does not resolve
\* there; the pre-execution list and the collection sets of the new context are the
\* ones of the receiver.  Hence every context derived from the first one has its
\* list and sets: a query registered or a collection recorded through any of them
\* is in the list and sets that the first context returns.
C23_ContextCloning ==
    pc = "context" =>
        /\ ReturnedNestedContext =>
               LET cloned(this, new) ==
                       /\ new.variableMap > Len(last.before.vm)
                       /\ last.variable.id \in DOMAIN variableMapOf(new, heap)
                       /\ last.variable.id \notin DOMAIN variableMapOf(this, heap)
                       /\ ~getVariable(this, last.variable, heap).ok
                       /\ new.preExecQueries = this.preExecQueries
                       /\ new.readAccessedCollections = this.readAccessedCollections
                       /\ new.writeAccessedCollections = this.writeAccessedCollections
               IN  cloned(contexts[last.receiver], contexts[last.returned])
        /\ \A i \in DOMAIN last.before.vm : heap.vm[i] = last.before.vm[i]
        /\ \A c \in DOMAIN contexts :
               /\ getPreExecuteQueries(contexts[c], heap)
                      = getPreExecuteQueries(contexts[1], heap)
               /\ getReadAccessedCollections(contexts[c], heap)
                      = getReadAccessedCollections(contexts[1], heap)
               /\ getWriteAccessedCollections(contexts[c], heap)
                      = getWriteAccessedCollections(contexts[1], heap)
        /\ (last.op = "addPreExecuteQuery" /\ last.ok) =>
               Len(getPreExecuteQueries(contexts[1], heap))
                   = Len(last.before.pre[contexts[1].preExecQueries]) + 1
        /\ last.op = "addCollectionAccess" =>
               ContextCollections \subseteq
                   getReadAccessedCollections(contexts[1], heap)
                       \cup getWriteAccessedCollections(contexts[1], heap)

\* a pre-execution query with a result variable registered through a context that
\* introduceVariable returned: the first context returns it
C23_Witness ==
    /\ pc = "context"
    /\ ReturnedNestedContext
    /\ last.op = "addPreExecuteQuery"
    /\ last.receiver > 1
    /\ last.returned > last.receiver
    /\ Len(getPreExecuteQueries(contexts[1], heap)) >= 1

\* the pre-execution compound queries of a compilation, at every depth
AllPreExecQueries ==
    UNION { { result.H.pre[k][j] : j \in DOMAIN result.H.pre[k] } :
            k \in DOMAIN result.H.pre }

\* C24: every context of a compilation records its accesses in the two Sets of the
\* first context (the Sets that the other contexts were constructed with stay
\* empty), so the read and write collections of the main compound query include
\* those of every pre-execution compound query, at any depth, and a collection that
\* only a pre-execution query accesses is in the sets of the main query.
C24_SharedCollectionSets ==
    (Done /\ result.ok) =>
        /\ \A q \in AllPreExecQueries :
               /\ q.readAccessedCollections \subseteq result.cq.readAccessedCollections
               /\ q.writeAccessedCollections \subseteq result.cq.writeAccessedCollections
        /\ \A i \in DOMAIN result.H.rd : i > 1 => result.H.rd[i] = {}
        /\ \A i \in DOMAIN result.H.wr : i > 1 => result.H.wr[i] = {}
        /\ result.cq.readAccessedCollections = result.H.rd[1]
        /\ result.cq.writeAccessedCollections = result.H.wr[1]
        /\ node \in NestedAccessInputs =>
               getCollectionNameForRootEntity("Delivery")
                   \in result.cq.writeAccessedCollections

\* a collection written only by a pre-execution query that a pre-execution query
\* registered, and another one read only by the query around it
C24_Witness ==
    /\ Done
    /\ result.ok
    /\ node \in NestedAccessInputs
    /\ node.resultNode = EntryLiteral(0)
    /\ Len(node.preExecQueries) = 1
    /\ result.cq.writeAccessedCollections = {getCollectionNameForRootEntity("Delivery")}
    /\ result.cq.readAccessedCollections = {getCollectionNameForRootEntity("HandlingUnit")}
    /\ \E q \in AllPreExecQueries :
           /\ q.readAccessedCollections = {}
           /\ q.writeAccessedCollections = {getCollectionNameForRootEntity("Delivery")}

\* the variables that a list or a condition refers to
RECURSIVE VariablesOf(_)
VariablesOf(n) ==
    CASE n.type = "Variable" -> {n}
      [] n.type = "Field" -> VariablesOf(n.objectNode)
      [] n.type = "BinaryOperation" -> VariablesOf(n.lhs) \cup VariablesOf(n.rhs)
      [] n.type = "UnaryOperation" -> VariablesOf(n.valueNode)
      [] n.type = "SafeList" -> VariablesOf(n.sourceNode)
      [] OTHER -> {}

\* C25: a QuantifierFilter in the scope of r1 whose list refers to r1 at most and
\* whose condition refers to r1 and the item variable at most lowers without a
\* 'used but not introduced' error, for every quantifier.
C25_QuantifierWellScoped ==
    (Done /\ node \in QuantifierInputs) =>
        LET q == ResultNodeOf(node)
        IN  (/\ VariablesOf(q.listNode) \subseteq {ResultVariable(1)}
             /\ VariablesOf(q.conditionNode) \subseteq {ResultVariable(1), q.itemVariable})
                => /\ result.ok
                   /\ result.err /= "used but not introduced"

\* the field resolutions that belong to an operation, and the invocations of
\* operationResolver for it
ResolutionsOf(operation) ==
    { i \in DOMAIN resolutions : resolutions[i].info.operation = operation }

InvocationsOf(operation) ==
    { p \in DOMAIN invocations : invocations[p].operation = operation }

FirstOf(indices) == CHOOSE i \in indices : \A j \in indices : i <= j

\* C26: over every interleaving of field resolutions, settlements and
\* continuations, operationResolver is invoked once per operation that has a
\* resolution, with the info of the first resolution; all fields of the operation
\* hang on that one promise, a fulfilled field holds the property of the shared
\* result under its alias or name, and a field is rejected exactly when the shared
\* promise is, without a further invocation.
C26_OncePerOperation ==
    \A operation \in Operations :
        LET fields == ResolutionsOf(operation)
            calls == InvocationsOf(operation)
        IN  /\ Cardinality(calls) = IF fields = {} THEN 0 ELSE 1
            /\ \A i \in fields, p \in calls :
                  LET resolution == resolutions[i]
                  IN  /\ resolution.promise = p
                      /\ invocations[p] = resolutions[FirstOf(fields)].info
                      /\ resolution.state \in {"pending", outcomes[p].state}
                      /\ resolution.state = "fulfilled" =>
                            resolution.value =
                                OperationResult(p)[getAliasOrName(resolution.info.fieldNodes[1])]
                      /\ resolution.state = "rejected" =>
                            resolution.value = OperationError(p)

\* two fields of one operation rejected by its one invocation, a field of another
\* operation fulfilled by a second invocation
C26_Witness ==
    /\ Len(resolutions) = 3
    /\ Len(invocations) = 2
    /\ resolutions[1].info.operation = resolutions[3].info.operation
    /\ resolutions[1].info.fieldNodes /= resolutions[3].info.fieldNodes
    /\ resolutions[1].state = "rejected"
    /\ resolutions[3].state = "rejected"
    /\ resolutions[2].info.operation /= resolutions[1].info.operation
    /\ resolutions[2].state = "fulfilled"
    /\ resolutions[2].value.key = "x"

\* the names of existing views, of required definitions and of planned migrations
ExistingNames == { views[i].name : i \in DOMAIN views }
RequiredNames == { definitions[i].viewName : i \in DOMAIN definitions }
MigrationNames(planned) == { planned[i].viewName : i \in DOMAIN planned }

HasFlexSearchPrefix(name) ==
    \E n \in 0..Len(name) : name = FLEX_SEARCH_VIEW_PREFIX \o SubSeq(name, Len(name) - n + 1, Len(name))

Planned == migrations.create.defined /\ migrations.drop.defined /\ migrations.update.defined

\* C27: the planning partitions the views by name: one create operation for each
\* required definition without an existing view and no other, one drop operation
\* for each existing view with the flex_view_ prefix and without a definition and no
\* other, update and recreate operations only for names both existing and required;
\* the names of the three results are pairwise disjoint and a view without the
\* prefix is never dropped.
C27_PartitionByName ==
    Planned =>
        LET create == migrations.create.value
            drop == migrations.drop.value
            update == migrations.update.value
        IN  /\ MigrationNames(create) = RequiredNames \ ExistingNames
            /\ Len(create) = Cardinality(RequiredNames \ ExistingNames)
            /\ \A i \in DOMAIN create : create[i].type = "create"
            /\ MigrationNames(drop) =
                  { name \in ExistingNames \ RequiredNames : HasFlexSearchPrefix(name) }
            /\ Len(drop) = Cardinality(MigrationNames(drop))
            /\ \A i \in DOMAIN drop : drop[i].type = "drop"
            /\ MigrationNames(update) \subseteq ExistingNames \cap RequiredNames
            /\ \A i \in DOMAIN update : update[i].type \in {"update", "recreate"}
            /\ MigrationNames(create) \cap MigrationNames(drop) = {}
            /\ MigrationNames(create) \cap MigrationNames(update) = {}
            /\ MigrationNames(drop) \cap MigrationNames(update) = {}
            /\ \A name \in ExistingNames : ~HasFlexSearchPrefix(name) => name \notin MigrationNames(drop)

\* a database with a view of another application, a leftover flex-search view and
\* a view to change, and a model that requires one more view
C27_Witness ==
    /\ Planned
    /\ OtherViewName \in ExistingNames
    /\ MigrationNames(migrations.drop.value) = {LeftoverViewName}
    /\ Len(migrations.create.value) = 1
    /\ Len(migrations.update.value) = 1

\* the existing views that have a definition of their name, in the order of the
\* existing views, each with the first definition of its name
MatchedViews == SelectSeq(views, LAMBDA view : view.name \in RequiredNames)

DefinitionOf(view) ==
    definitions[CHOOSE i \in DOMAIN definitions :
        /\ definitions[i].viewName = view.name
        /\ \A j \in DOMAIN definitions : definitions[j].viewName = view.name => i <= j]

\* what the planning owes a matched view: nothing, a recreation or an update
OwedTo(view) ==
    LET wanted == getPropertiesFromDefinition(DefinitionOf(view), configuration)
        sameSort == wanted.primarySort = view.properties.primarySort
        sameLinks == wanted.links = view.properties.links
        sameInterval == wanted.commitIntervalMsec = view.properties.commitIntervalMsec
    IN  IF ~sameSort THEN "recreate"
        ELSE IF ~sameLinks \/ ~sameInterval THEN "update"
        ELSE "none"

\* C28: the update planning yields, in the order of the existing views, no
\* migration for a matched view whose links, primary sort and commit interval equal
\* the definition's, one Recreate migration when the primary sort differs, and one
\* Update migration when the primary sort is equal and links or commit interval
\* differ; each migration carries the name and the properties of the definition.
C28_UpdateOperations ==
    migrations.update.defined =>
        LET update == migrations.update.value
            owed == SelectSeq(MatchedViews, LAMBDA view : OwedTo(view) /= "none")
        IN  /\ Len(update) = Len(owed)
            /\ \A i \in DOMAIN update :
                  /\ i \in DOMAIN owed
                  /\ update[i].viewName = owed[i].name
                  /\ update[i].type = OwedTo(owed[i])
                  /\ update[i].properties =
                        getPropertiesFromDefinition(DefinitionOf(owed[i]), configuration)

\* a view to update because its links differ, a view without a definition, and a
\* view to recreate, planned in that order
C28_Witness ==
    /\ migrations.update.defined
    /\ Len(views) = 3
    /\ Len(MatchedViews) = 2
    /\ views[2].name \notin RequiredNames
    /\ OwedTo(views[1]) = "update"
    /\ views[1].properties.links /= getPropertiesFromDefinition(DefinitionOf(views[1]), configuration).links
    /\ OwedTo(views[3]) = "recreate"
    /\ Len(migrations.update.value) = 2

\* the recursion depth in force: the configured one, 1 when it is 0 or left out
DepthInForce ==
    IF configuration.defined
    THEN LET depth == configuration.value.recursionDepth
         IN  IF depth.defined /\ depth.value > 0 THEN depth.value ELSE 1
    ELSE 1

IsSearchable(field) == field.isFlexSearchIndexed \/ field.isFlexSearchFulltextIndexed

LinkNameOf(field) ==
    IF field.declaringType \in RootEntityTypes /\ field.name = ID_FIELD THEN "_key" ELSE field.name

FieldsIn(type) == { FieldsOfType(type)[i] : i \in DOMAIN FieldsOfType(type) }

Occurrences(path, field) == Cardinality({ i \in DOMAIN path : path[i] = field })

\* the paths of fields along the links tree of a view, from the fields of a type
RECURSIVE TreePaths(_, _, _)
TreePaths(fields, type, path) ==
    UNION { LET field == CHOOSE f \in FieldsIn(type) : LinkNameOf(f) = name
                longer == Append(path, field)
            IN  {longer} \cup
                (IF fields[name].fields.defined
                 THEN TreePaths(fields[name].fields.value, field.type, longer)
                 ELSE {}) : name \in DOMAIN fields }

TypeAtEndOf(path, rootEntityType) ==
    IF Len(path) = 0 THEN rootEntityType ELSE path[Len(path)].type

SearchableFields ==
    { field \in UNION { FieldsIn(type) : type \in ObjectTypeNames } : IsSearchable(field) }

PlannedWithProperties ==
    (IF migrations.create.defined THEN Range(migrations.create.value) ELSE {})
        \cup (IF migrations.update.defined THEN Range(migrations.update.value) ELSE {})

PathsOfMigration(migration) ==
    LET definition == CHOOSE d \in Range(definitions) : d.viewName = migration.viewName
    IN  TreePaths(migration.properties.links[definition.collectionName].fields.value,
                  definition.rootEntityType, <<>>)

RootTypeOfMigration(migration) ==
    (CHOOSE d \in Range(definitions) : d.viewName = migration.viewName).rootEntityType

\* C29: the links tree of every planned view is finite also for the types that
\* contain themselves: on every path each field is flex-search indexed or full-text
\* indexed and occurs at most as often as the recursion depth in force (1 when the
\* depth is 0 or not configured), and the tree descends into every such field of
\* the type at the end of a path that occurs fewer times on it.
C29_RecursionDepth ==
    \A migration \in PlannedWithProperties :
        LET paths == PathsOfMigration(migration)
            rootEntityType == RootTypeOfMigration(migration)
        IN  /\ \A path \in paths :
                  /\ Len(path) <= DepthInForce * Cardinality(SearchableFields)
                  /\ \A i \in DOMAIN path :
                        /\ IsSearchable(path[i])
                        /\ Occurrences(path, path[i]) <= DepthInForce
            /\ \A path \in paths \cup { <<>> } :
                  \A field \in FieldsIn(TypeAtEndOf(path, rootEntityType)) :
                      (IsSearchable(field) /\ Occurrences(path, field) < DepthInForce)
                          <=> Append(path, field) \in paths

\* a view of deliveries planned with recursion depth 2: the field of the value
\* object that refers to its own type lies twice on a path, and the plain field
\* below it is reached
C29_Witness ==
    /\ DepthInForce = 2
    /\ \E migration \in PlannedWithProperties :
          \E path \in PathsOfMigration(migration) :
              /\ Len(path) = 4
              /\ path[1].declaringType = "Delivery"
              /\ path[2] = path[3]
              /\ path[2].type = "Recursion"
              /\ path[4].name = "name"

\* whether the key of the i-th call was given to an earlier call on the array
SeenBefore(i) == \E j \in 1..(i - 1) : returned[j].search = returned[i].search

EveryCallAppends ==
    /\ Len(seenArray) = Len(returned)
    /\ \A i \in DOMAIN returned : seenArray[i] = returned[i].search

\* C30 (as stated): isExistingAndAdd returns true on the first insertion of a key
\* and false on every later call with the same key, and appends the key on every
\* call.
C30_TrueOnFirstInsertion ==
    /\ EveryCallAppends
    /\ \A i \in DOMAIN returned : returned[i].returned = ~SeenBefore(i)

\* C30 (amended): isExistingAndAdd returns false on the first insertion of a key
\* and true on every later call with the same key, and appends the key on every
\* call.
C30_TrueWhenExisting ==
    /\ EveryCallAppends
    /\ \A i \in DOMAIN returned : returned[i].returned = SeenBefore(i)

\* a key inserted, another key inserted, the first key given twice more
C30_Witness ==
    /\ Len(returned) = 4
    /\ returned[1].search = "type/Delivery"
    /\ returned[2].search = "Delivery/label"
    /\ returned[3].search = "type/Delivery"
    /\ returned[4].search = "type/Delivery"
    /\ << returned[1].returned, returned[2].returned, returned[3].returned, returned[4].returned >>
          = << FALSE, FALSE, TRUE, TRUE >>
    /\ seenArray = << "type/Delivery", "Delivery/label", "type/Delivery", "type/Delivery" >>

====
